---- MODULE Spec2Model ----
(***************************************************************************)
(* A model of the transaction-coordinator infrastructure:                  *)
(*   - TransactionCoordinatorCatalog (transaction_coordinator_catalog.cpp) *)
(*   - txn::AsyncWorkScheduler (transaction_coordinator_futures_util.cpp)  *)
(* Every critical section is split at the points where another thread can  *)
(* observe the shared state or where the code changes a container.         *)
(***************************************************************************)
EXTENDS Integers, Sequences, FiniteSets, TLC

(***************************************************************************)
(* Bounds of the model.                                                    *)
(***************************************************************************)
NumClients == 2
MaxCoordinators == 2
MaxTxnNumber == 2
NumSessions == 1
NumSchedThreads == 2
MaxNodes == 3
MaxContexts == 1
MaxHandles == 1
MaxCommands == 1
MaxCallbacks == 2
MaxEvents == 1
NumExecThreads == 2

\* The names of the sessions, as many as the bound allows.
SessionNames == <<"lsidA", "lsidB", "lsidC">>
LogicalSessionIds == {SessionNames[i] : i \in 1..NumSessions}
TxnNumbers == 1..MaxTxnNumber
Clients == 1..NumClients
Coordinators == 1..MaxCoordinators
\* The threads of the fixed executor of the executor pool.
Workers == {NumClients + 1}
Threads == Clients \cup Workers

NoThread == 0
NullCoordinator == 0
None == "none"
Unset == "unset"
StatusOK == "OK"
FailureStatuses == {"NotMaster", "ShutdownInProgress"}
Interrupted == "Interrupted"

\* AsyncWorkScheduler
SchedThreads == 1..NumSchedThreads
Nodes == 1..MaxNodes
Contexts == 1..MaxContexts
Handles == 1..MaxHandles
NoNode == 0
ShutdownReasons == {"TransactionCoordinatorSteppingDown", "InterruptedAtShutdown"}
\* The status each thread passes to shutdown.
StatusOf(t) == IF t = 1 THEN "TransactionCoordinatorSteppingDown"
               ELSE "InterruptedAtShutdown"

\* ThreadPoolTaskExecutor
Callbacks == 1..MaxCallbacks
Events == 1..MaxEvents
\* The threads that call join.
ExecThreads == 1..NumExecThreads

VARIABLES
    \* TransactionCoordinatorCatalog
    _coordinatorsBySession,   \* lsid -> (txnNumber -> coordinator), both partial
    _mutex,                   \* the thread that owns the catalog mutex, or NoThread
    _stepUpCompletionStatus,  \* boost::optional<Status>
    pc,                       \* position of every client thread
    call,                     \* arguments of the call a client thread is in
    result,                   \* what the call of a client thread returned or threw
    coordinatorsToCancel,     \* onStepDown's local vector, the part not yet cancelled
    completion,               \* coordinator -> state of its onCompletion() future
    continuation,             \* coordinator -> the getAsync continuation registered on it
    numCreated,               \* coordinators constructed so far
    tasks,                    \* _remove continuations queued on the fixed executor
    wpc,                      \* position of every executor thread
    wtask,                    \* the continuation an executor thread is running
    aborted,                  \* the invariant() that terminated the process
    \* history variables
    registeredAt,             \* coordinator -> the key it is registered under: set
                              \* by insert's store, cleared when its _remove runs
    sdExpected,               \* coordinators registered when onStepDown locked
    sdCalls,                  \* hook invocations made by the running onStepDown
    \* AsyncWorkScheduler, per node
    nodeState,                \* unborn, alive, destroying (~AsyncWorkScheduler
                              \* between its two critical sections), destroyed
    nodeMutex,                \* the thread that owns the node's _mutex, or NoThread
    _parent,
    _childSchedulers,         \* the list of children, newest first
    _shutdownStatus,
    _activeOpContexts,
    _activeHandles,
    killed,                   \* operation context -> killOperation was called on it
    cancelRequested,          \* handle -> _executor->cancel was called on it
    numNodes,                 \* schedulers, operation contexts and handles made
    numContexts,
    numHandles,
    spc,                      \* position of every thread that calls shutdown
    scall,                    \* the shutdown call a thread is in
    frames,                   \* its stack of shutdown calls: node and children to do
    schedAborted,             \* the invariant() that terminated the process
    \* scheduleRemoteCommand, per call
    cmd,                      \* position, arguments and outcome of every call
    \* ThreadPoolTaskExecutor
    _state,                   \* preStart, running, joinRequired, joining,
                              \* shutdownComplete
    _pool,                    \* the thread pool: notStarted, running, shutdown
    cbStates,                 \* callback state -> the queue it is in, its flags
                              \* and the progress of its pool task
    eventStates,              \* event -> unmade, refused, unsignaled, signaled
    epc,                      \* position of every thread that calls join
    execAborted               \* the invariant() that terminated the process

schedVars == <<nodeState, nodeMutex, _parent, _childSchedulers, _shutdownStatus,
               _activeOpContexts, _activeHandles, killed, cancelRequested, numNodes,
               numContexts, numHandles, spc, scall, frames, schedAborted>>

catalogVars == <<_coordinatorsBySession, _mutex, _stepUpCompletionStatus, pc, call,
                 result, coordinatorsToCancel, completion, continuation, numCreated,
                 tasks, wpc, wtask, aborted, registeredAt, sdExpected,
                 sdCalls>>

remoteVars == <<cmd>>

execVars == <<_state, _pool, cbStates, eventStates, epc, execAborted>>

vars == <<catalogVars, schedVars, remoteVars, execVars>>

(***************************************************************************)
(* Containers.                                                             *)
(***************************************************************************)
EmptyMap == [k \in {} |-> NullCoordinator]
MapPut(m, k, v) == [x \in (DOMAIN m) \cup {k} |-> IF x = k THEN v ELSE m[x]]
MapErase(m, k) == [x \in (DOMAIN m) \ {k} |-> m[x]]

\* The key comparator of the inner std::map: a sorts before b.
TxnCompare(a, b) == a > b

\* std::map::begin(): the key no other key sorts before.
MapBegin(inner) ==
    CHOOSE k \in DOMAIN inner : \A j \in DOMAIN inner : j = k \/ TxnCompare(k, j)

RECURSIVE InnerSeq(_)
InnerSeq(inner) ==
    IF DOMAIN inner = {} THEN <<>>
    ELSE LET k == MapBegin(inner) IN <<inner[k]>> \o InnerSeq(MapErase(inner, k))

\* Mutant: every coordinator there is, in the map or not.
SnapshotSeq_Everyone(m) == [i \in 1..MaxCoordinators |-> i]

\* Mutant: the inner loop stops after the first coordinator of a session.
RECURSIVE SnapshotSeq_FirstTxn(_)
SnapshotSeq_FirstTxn(m) ==
    IF DOMAIN m = {} THEN <<>>
    ELSE LET s == CHOOSE x \in DOMAIN m : TRUE
             q == InnerSeq(m[s])
         IN (IF q = <<>> THEN <<>> ELSE <<Head(q)>>)
                \o SnapshotSeq_FirstTxn(MapErase(m, s))

\* The nested range-for of onStepDown: every coordinator of every session.
RECURSIVE SnapshotSeq(_)
SnapshotSeq(m) ==
    IF DOMAIN m = {} THEN <<>>
    ELSE LET s == CHOOSE x \in DOMAIN m : TRUE
         IN InnerSeq(m[s]) \o SnapshotSeq(MapErase(m, s))

NoCall == [op |-> None, lsid |-> None, txnNumber |-> 0,
           coordinator |-> NullCoordinator, forStepUp |-> FALSE]
NoResult == [status |-> None, txnNumber |-> 0, coordinator |-> NullCoordinator]
NoCalls == [c \in Coordinators |-> 0]

NoShutdownCall == [node |-> NoNode, reason |-> StatusOK, first |-> FALSE,
                   contexts |-> {}, handles |-> {}]

\* One root scheduler has been constructed.
SchedulerInit ==
    /\ nodeState = [n \in Nodes |-> IF n = 1 THEN "alive" ELSE "unborn"]
    /\ nodeMutex = [n \in Nodes |-> NoThread]
    /\ _parent = [n \in Nodes |-> NoNode]
    /\ _childSchedulers = [n \in Nodes |-> <<>>]
    /\ _shutdownStatus = [n \in Nodes |-> StatusOK]
    /\ _activeOpContexts = [n \in Nodes |-> {}]
    /\ _activeHandles = [n \in Nodes |-> {}]
    /\ killed = [x \in Contexts |-> FALSE]
    /\ cancelRequested = [h \in Handles |-> FALSE]
    /\ numNodes = 1
    /\ numContexts = 0
    /\ numHandles = 0
    /\ spc = [t \in SchedThreads |-> "idle"]
    /\ scall = [t \in SchedThreads |-> NoShutdownCall]
    /\ frames = [t \in SchedThreads |-> <<>>]
    /\ schedAborted = None

CatalogInit ==
    /\ _coordinatorsBySession = EmptyMap
    /\ _mutex = NoThread
    /\ _stepUpCompletionStatus = Unset
    /\ pc = [t \in Clients |-> "idle"]
    /\ call = [t \in Clients |-> NoCall]
    /\ result = [t \in Clients |-> NoResult]
    /\ coordinatorsToCancel = [t \in Clients |-> <<>>]
    /\ completion = [c \in Coordinators |-> "pending"]
    /\ continuation = [c \in Coordinators |-> {}]
    /\ numCreated = 0
    /\ tasks = {}
    /\ wpc = [w \in Workers |-> "idle"]
    /\ wtask = [w \in Workers |-> {}]
    /\ aborted = None
    /\ registeredAt = [c \in Coordinators |-> {}]
    /\ sdExpected = [t \in Clients |-> {}]
    /\ sdCalls = [t \in Clients |-> NoCalls]

\* scheduleRemoteCommand
Commands == 1..MaxCommands
ShardIds == {"config", "shardA", "shardB"}
kConfigServerShardId == "config"
\* ShardingState::shardId() of this process when it is a shard server.
ThisShardId == "shardA"
ClusterRoles == {"ConfigServer", "ShardServer", "None"}
CallbackCanceled == "CallbackCanceled"
TransportStatuses == {StatusOK, CallbackCanceled, "HostUnreachable"}
TargetingFailures == {"ShardNotFound", "FailedToSatisfyReadPreference"}
\* args.response.data of a response that arrived: a reply whose command
\* status and write-concern status are OK, one whose command status is an
\* error, one whose write-concern status is an error.
ResponseData == {"ok", "NotMaster", "WriteConcernFailed"}

NoCommand == [pc |-> "idle", node |-> NoNode, shardId |-> None, role |-> None,
              self |-> FALSE, ctx |-> 0, handle |-> 0, targeting |-> None,
              resolved |-> FALSE, issued |-> FALSE, transport |-> None,
              data |-> None, result |-> None]

RemoteInit == cmd = [k \in Commands |-> NoCommand]

\* A callback state that is not constructed yet.  queue is the list the
\* state is in, or what the call that would have enqueued it returned;
\* task is the progress of the task scheduleIntoPool_inlock gives the pool;
\* net is the alarm or the network operation; cancelpc is a cancel between
\* its two critical sections; moved counts the splices into
\* _poolInProgressQueue; status is the status the callback was run with.
NoCallbackState ==
    [queue |-> "unmade", kind |-> None, canceled |-> FALSE, event |-> 0,
     task |-> "none", net |-> "none", cancelpc |-> "none", moved |-> 0,
     status |-> None, isFinished |-> FALSE]

ExecutorInit ==
    /\ _state = "preStart"
    /\ _pool = "notStarted"
    /\ cbStates = [c \in Callbacks |-> NoCallbackState]
    /\ eventStates = [e \in Events |-> "unmade"]
    /\ epc = [t \in ExecThreads |-> "idle"]
    /\ execAborted = None

Init == CatalogInit /\ SchedulerInit /\ RemoteInit /\ ExecutorInit

\* A step of the catalog: the process is running; the schedulers are not
\* touched.
Running ==
    aborted = None /\ UNCHANGED schedVars /\ UNCHANGED remoteVars /\ UNCHANGED execVars

\* A failed invariant() terminates the process: nothing of its state is left.
Abort(reason) ==
    /\ aborted' = reason
    /\ _coordinatorsBySession' = EmptyMap
    /\ _mutex' = NoThread
    /\ _stepUpCompletionStatus' = Unset
    /\ pc' = [t \in Clients |-> "idle"]
    /\ call' = [t \in Clients |-> NoCall]
    /\ result' = [t \in Clients |-> NoResult]
    /\ coordinatorsToCancel' = [t \in Clients |-> <<>>]
    /\ completion' = [c \in Coordinators |-> "pending"]
    /\ continuation' = [c \in Coordinators |-> {}]
    /\ numCreated' = 0
    /\ tasks' = {}
    /\ wpc' = [w \in Workers |-> "idle"]
    /\ wtask' = [w \in Workers |-> {}]
    /\ registeredAt' = [c \in Coordinators |-> {}]
    /\ sdExpected' = [t \in Clients |-> {}]
    /\ sdCalls' = [t \in Clients |-> NoCalls]

(***************************************************************************)
(* _waitForStepUpToComplete                                                *)
(***************************************************************************)
\* Mutant: only insert waits for step-up.
NeedsStepUpWait_OnlyInsert(op, forStepUp) == op = "insert" /\ ~forStepUp

NeedsStepUpWait_Always(op, forStepUp) == TRUE

\* insert skips the wait when it is called for step-up; get and
\* getLatestOnSession always wait.
NeedsStepUpWait(op, forStepUp) == op # "insert" \/ ~forStepUp

StepUpComplete_OnlyOK(status) == status = StatusOK

\* The predicate of the condition-variable wait.
StepUpComplete(status) == status # Unset

\* Mutant: the status is not asserted after the wait.
WaitOutcome_NoUassert(status) ==
    IF ~StepUpComplete(status) THEN "block" ELSE "pass"

\* What the wait and the uassertStatusOK after it do: the caller sleeps on
\* _stepUpCompleteCV (the mutex is released), goes on with the mutex held, or
\* throws the step-up failure.
WaitOutcome(status) ==
    IF ~StepUpComplete(status) THEN "block"
    ELSE IF status = StatusOK THEN "pass" ELSE "throw"

GateOutcome(op, forStepUp, status) ==
    IF NeedsStepUpWait(op, forStepUp) THEN WaitOutcome(status) ELSE "pass"

(***************************************************************************)
(* The bodies of insert, get and getLatestOnSession                        *)
(***************************************************************************)
\* _coordinatorsBySession[lsid]: operator[] default-constructs a missing entry.
IndexSession(m, lsid) == IF lsid \in DOMAIN m THEN m ELSE MapPut(m, lsid, EmptyMap)

StoreCoordinator_Skip(m, lsid, txnNumber, c) == m

\* coordinatorsBySession[txnNumber] = coordinator
StoreCoordinator(m, lsid, txnNumber, c) ==
    [m EXCEPT ![lsid] = MapPut(m[lsid], txnNumber, c)]

\* Mutant: the transaction number is not looked up, the first entry is taken.
GetLookup_AnyTxn(m, lsid, txnNumber) ==
    IF lsid \in DOMAIN m /\ DOMAIN m[lsid] # {}
    THEN m[lsid][MapBegin(m[lsid])] ELSE NullCoordinator

\* The two finds of get.
GetLookup(m, lsid, txnNumber) ==
    IF lsid \in DOMAIN m /\ txnNumber \in DOMAIN m[lsid]
    THEN m[lsid][txnNumber] ELSE NullCoordinator

\* Mutant: the last entry of the session's map is taken.
LatestTxn_Back(inner) ==
    CHOOSE k \in DOMAIN inner : \A j \in DOMAIN inner : j = k \/ TxnCompare(j, k)

\* The entry getLatestOnSession takes: begin() of the session's map.
LatestTxn(inner) == MapBegin(inner)

\* What getLatestOnSession returns when its invariant holds.
GetLatestLookup(m, lsid) ==
    IF lsid \notin DOMAIN m
    THEN [NoResult EXCEPT !.status = StatusOK]
    ELSE [status |-> StatusOK,
          txnNumber |-> LatestTxn(m[lsid]),
          coordinator |-> m[lsid][LatestTxn(m[lsid])]]

\* A call that has the mutex goes through the gate and, if it passes, runs
\* the part of its body that is under the mutex. get and getLatestOnSession
\* only read and return, which destroys their unique_lock; insert stays in
\* its critical section after operator[].
Enter(t, c) ==
    LET o == GateOutcome(c.op, c.forStepUp, _stepUpCompletionStatus)
        m == _coordinatorsBySession
    IN
    /\ _mutex = NoThread
    /\ IF o = "pass" /\ c.op = "getLatestOnSession"
          /\ c.lsid \in DOMAIN m /\ DOMAIN m[c.lsid] = {}
       THEN Abort("getLatestOnSession: invariant(!coordinatorsForSession.empty())")
       ELSE
        /\ call' = [call EXCEPT ![t] = c]
        /\ pc' = [pc EXCEPT ![t] =
                     CASE o = "block" -> "blocked"
                       [] o = "throw" -> "done"
                       [] o = "pass" /\ c.op = "insert" -> "i_indexed"
                       [] OTHER -> "done"]
        /\ result' = [result EXCEPT ![t] =
                     CASE o = "block" -> NoResult
                       [] o = "throw" ->
                            [NoResult EXCEPT !.status = _stepUpCompletionStatus]
                       [] o = "pass" /\ c.op = "get" ->
                            [NoResult EXCEPT !.status = StatusOK,
                                             !.coordinator =
                                                 GetLookup(m, c.lsid, c.txnNumber)]
                       [] o = "pass" /\ c.op = "getLatestOnSession" ->
                            GetLatestLookup(m, c.lsid)
                       [] OTHER -> NoResult]
        /\ _mutex' = IF o = "pass" /\ c.op = "insert" THEN t ELSE NoThread
        /\ _coordinatorsBySession' =
               IF o = "pass" /\ c.op = "insert" THEN IndexSession(m, c.lsid) ELSE m
        /\ UNCHANGED <<_stepUpCompletionStatus, coordinatorsToCancel, completion,
                       continuation, tasks, wpc, wtask, aborted, registeredAt, sdExpected, sdCalls>>

\* A sleeping call is notified by exitStepUp, re-acquires the mutex and
\* re-evaluates the predicate.
Wake(t) ==
    /\ Running
    /\ pc[t] = "blocked"
    /\ StepUpComplete(_stepUpCompletionStatus)
    /\ Enter(t, call[t])
    /\ UNCHANGED numCreated

\* The operation context of a sleeping call is interrupted: the wait throws.
WaitInterrupted(t) ==
    /\ Running
    /\ pc[t] = "blocked"
    /\ _mutex = NoThread
    /\ pc' = [pc EXCEPT ![t] = "done"]
    /\ result' = [result EXCEPT ![t] = [NoResult EXCEPT !.status = Interrupted]]
    /\ UNCHANGED <<_coordinatorsBySession, _mutex, _stepUpCompletionStatus, call,
                   coordinatorsToCancel, completion, continuation, numCreated, tasks,
                   wpc, wtask, aborted, registeredAt, sdExpected, sdCalls>>

(***************************************************************************)
(* exitStepUp                                                              *)
(***************************************************************************)
ExitStepUpInvariant_Skip(status) == TRUE

\* invariant(!_stepUpCompletionStatus)
ExitStepUpInvariant(status) == status = Unset

exitStepUp(status) ==
    /\ Running
    /\ _mutex = NoThread
    /\ IF ~ExitStepUpInvariant(_stepUpCompletionStatus)
       THEN Abort("exitStepUp: invariant(!_stepUpCompletionStatus)")
       ELSE /\ _stepUpCompletionStatus' = status
            /\ UNCHANGED <<_coordinatorsBySession, _mutex, pc, call, result,
                           coordinatorsToCancel, completion, continuation, numCreated,
                           tasks, wpc, wtask, aborted, registeredAt,
                           sdExpected, sdCalls>>

(***************************************************************************)
(* insert                                                                  *)
(***************************************************************************)
\* The continuation insert registers: [this, lsid, txnNumber](Status) {
\* _remove(lsid, txnNumber); }, with the status the future hands to it.
RemoveTask(c, lsid, txnNumber, status) ==
    [coordinator |-> c, lsid |-> lsid, txnNumber |-> txnNumber, status |-> status]

\* The caller constructs a coordinator and calls insert, which locks and waits
\* for step-up unless forStepUp.
InsertCall(t, lsid, txnNumber, forStepUp) ==
    /\ Running
    /\ pc[t] = "idle"
    /\ numCreated < MaxCoordinators
    /\ Enter(t, [op |-> "insert", lsid |-> lsid, txnNumber |-> txnNumber,
                 coordinator |-> numCreated + 1, forStepUp |-> forStepUp])
    /\ numCreated' = numCreated + 1

\* Mutant: no invariant on the key, the store overwrites.
InsertStore_Overwrite(t) ==
    /\ Running
    /\ pc[t] = "i_indexed"
    /\ _coordinatorsBySession' =
           [_coordinatorsBySession EXCEPT ![call[t].lsid] =
               MapPut(@, call[t].txnNumber, call[t].coordinator)]
    /\ registeredAt' = [registeredAt EXCEPT ![call[t].coordinator] =
                           {<<call[t].lsid, call[t].txnNumber>>}]
    /\ _mutex' = NoThread
    /\ pc' = [pc EXCEPT ![t] = "i_unlocked"]
    /\ UNCHANGED <<_stepUpCompletionStatus, call, result,
                   coordinatorsToCancel, completion, continuation,
                   numCreated, tasks, wpc, wtask, aborted,
                   sdExpected, sdCalls>>

InsertUnlock_Held(t) == t

\* ul.unlock() before the continuation is registered: the owner of the mutex
\* after it.
InsertUnlock(t) == NoThread

\* The invariant on the key, the store, and ul.unlock().
InsertStore(t) ==
    /\ Running
    /\ pc[t] = "i_indexed"
    /\ IF call[t].txnNumber \in DOMAIN _coordinatorsBySession[call[t].lsid]
       THEN Abort("insert: invariant(find(txnNumber) == end())")
       ELSE /\ _coordinatorsBySession' =
                   StoreCoordinator(_coordinatorsBySession, call[t].lsid,
                                    call[t].txnNumber, call[t].coordinator)
            /\ registeredAt' = [registeredAt EXCEPT ![call[t].coordinator] =
                                   {<<call[t].lsid, call[t].txnNumber>>}]
            /\ _mutex' = InsertUnlock(t)
            /\ pc' = [pc EXCEPT ![t] = "i_unlocked"]
            /\ UNCHANGED <<_stepUpCompletionStatus, call, result,
                           coordinatorsToCancel, completion, continuation,
                           numCreated, tasks, wpc, wtask, aborted,
                           sdExpected, sdCalls>>

\* onCompletion().thenRunOn(fixedExecutor).ignoreValue().getAsync(...): the
\* continuation is queued on the executor, with the future's status, as soon
\* as the future is ready, which it may already be.
InsertRegister(t) ==
    LET c == call[t].coordinator
    IN /\ Running
       /\ pc[t] = "i_unlocked"
       /\ IF completion[c] # "pending"
          THEN /\ tasks' = tasks \cup {RemoveTask(c, call[t].lsid, call[t].txnNumber,
                                                  completion[c])}
               /\ completion' = [completion EXCEPT ![c] = "consumed"]
               /\ UNCHANGED continuation
          ELSE /\ continuation' = [continuation EXCEPT ![c] =
                                      {<<call[t].lsid, call[t].txnNumber>>}]
               /\ UNCHANGED <<tasks, completion>>
       /\ pc' = [pc EXCEPT ![t] = "done"]
       /\ result' = [result EXCEPT ![t] = [NoResult EXCEPT !.status = StatusOK]]
       /\ UNCHANGED <<_coordinatorsBySession, _mutex, _stepUpCompletionStatus, call,
                      coordinatorsToCancel, numCreated,
                      wpc, wtask, aborted, registeredAt, sdExpected, sdCalls>>

\* Mutant: the continuation is chained with then(), which skips it on error.
ResolveCompletion_Then(c, how) ==
    /\ completion' = [completion EXCEPT ![c] =
                         IF continuation[c] = {} THEN how ELSE "consumed"]
    /\ tasks' = IF how = "ok"
                THEN tasks \cup {RemoveTask(c, k[1], k[2], how) : k \in continuation[c]}
                ELSE tasks
    /\ continuation' = [continuation EXCEPT ![c] = {}]

ResolveCompletion_Keep(c, how) ==
    /\ completion' = [completion EXCEPT ![c] =
                         IF continuation[c] = {} THEN how ELSE "consumed"]
    /\ tasks' = tasks \cup {RemoveTask(c, k[1], k[2], how) : k \in continuation[c]}
    /\ continuation' = continuation

\* A coordinator's completion promise is fulfilled; a registered continuation
\* takes the status and is handed to the executor.
ResolveCompletion(c, how) ==
    /\ completion' = [completion EXCEPT ![c] =
                         IF continuation[c] = {} THEN how ELSE "consumed"]
    /\ tasks' = tasks \cup {RemoveTask(c, k[1], k[2], how) : k \in continuation[c]}
    /\ continuation' = [continuation EXCEPT ![c] = {}]

Complete(c, how) ==
    /\ Running
    /\ c <= numCreated
    /\ completion[c] = "pending"
    /\ ResolveCompletion(c, how)
    /\ UNCHANGED <<_coordinatorsBySession, _mutex, _stepUpCompletionStatus, pc, call,
                   result, coordinatorsToCancel, numCreated,
                   wpc, wtask, aborted, registeredAt, sdExpected, sdCalls>>

(***************************************************************************)
(* get and getLatestOnSession                                              *)
(***************************************************************************)
GetCall(t, lsid, txnNumber) ==
    /\ Running
    /\ pc[t] = "idle"
    /\ Enter(t, [NoCall EXCEPT !.op = "get", !.lsid = lsid, !.txnNumber = txnNumber])
    /\ UNCHANGED numCreated

GetLatestCall(t, lsid) ==
    /\ Running
    /\ pc[t] = "idle"
    /\ Enter(t, [NoCall EXCEPT !.op = "getLatestOnSession", !.lsid = lsid])
    /\ UNCHANGED numCreated

\* The caller has its result (or exception) and goes on to something else.
Return(t) ==
    /\ Running
    /\ pc[t] = "done"
    /\ pc' = [pc EXCEPT ![t] = "idle"]
    /\ call' = [call EXCEPT ![t] = NoCall]
    /\ result' = [result EXCEPT ![t] = NoResult]
    /\ sdExpected' = [sdExpected EXCEPT ![t] = {}]
    /\ sdCalls' = [sdCalls EXCEPT ![t] = NoCalls]
    /\ UNCHANGED <<_coordinatorsBySession, _mutex, _stepUpCompletionStatus,
                   coordinatorsToCancel, completion, continuation, numCreated, tasks,
                   wpc, wtask, aborted, registeredAt>>

(***************************************************************************)
(* _remove, run by the fixed executor                                      *)
(***************************************************************************)
\* coordinatorsForSession.erase(coordinatorForTxnIter), when both finds hit.
EraseTxn_Skip(m, lsid, txnNumber) == m

EraseTxn(m, lsid, txnNumber) ==
    IF lsid \in DOMAIN m /\ txnNumber \in DOMAIN m[lsid]
    THEN [m EXCEPT ![lsid] = MapErase(m[lsid], txnNumber)]
    ELSE m

\* Mutant: the emptied session is left in the map.
EraseSessionIfEmpty_Never(m, lsid) == m

\* if (coordinatorsForSession.empty()) _coordinatorsBySession.erase(...)
EraseSessionIfEmpty(m, lsid) ==
    IF lsid \in DOMAIN m /\ DOMAIN m[lsid] = {} THEN MapErase(m, lsid) ELSE m

\* An executor thread takes a queued continuation; _remove locks the mutex
\* and erases the transaction's entry.
RemoveEraseTxn(w) ==
    /\ Running
    /\ wpc[w] = "idle"
    /\ _mutex = NoThread
    /\ \E task \in tasks :
          /\ tasks' = tasks \ {task}
          /\ wtask' = [wtask EXCEPT ![w] = {task}]
          /\ _coordinatorsBySession' =
                 EraseTxn(_coordinatorsBySession, task.lsid, task.txnNumber)
          /\ registeredAt' = [registeredAt EXCEPT ![task.coordinator] = {}]
    /\ _mutex' = w
    /\ wpc' = [wpc EXCEPT ![w] = "r_erased"]
    /\ UNCHANGED <<_stepUpCompletionStatus, pc, call, result,
                   coordinatorsToCancel, completion, continuation, numCreated,
                   aborted, sdExpected, sdCalls>>

\* The session's entry is erased if that left it empty;
\* _noActiveCoordinatorsCV is notified when the map is empty; the lock_guard
\* is destroyed.
RemoveEraseSession(w) ==
    /\ Running
    /\ wpc[w] = "r_erased"
    /\ \E task \in wtask[w] :
          _coordinatorsBySession' = EraseSessionIfEmpty(_coordinatorsBySession, task.lsid)
    /\ _mutex' = NoThread
    /\ wpc' = [wpc EXCEPT ![w] = "idle"]
    /\ wtask' = [wtask EXCEPT ![w] = {}]
    /\ UNCHANGED <<_stepUpCompletionStatus, pc, call, result,
                   coordinatorsToCancel, completion, continuation, numCreated, tasks,
                   aborted, registeredAt, sdExpected, sdCalls>>

(***************************************************************************)
(* onStepDown                                                              *)
(***************************************************************************)
RegisteredCoordinators ==
    {c \in Coordinators : registeredAt[c] # {}}

StepDownSnapshot(t) ==
    /\ Running
    /\ pc[t] = "idle"
    /\ _mutex = NoThread
    /\ _mutex' = t
    /\ call' = [call EXCEPT ![t] = [NoCall EXCEPT !.op = "onStepDown"]]
    /\ coordinatorsToCancel' =
           [coordinatorsToCancel EXCEPT ![t] = SnapshotSeq(_coordinatorsBySession)]
    /\ sdExpected' = [sdExpected EXCEPT ![t] = RegisteredCoordinators]
    /\ pc' = [pc EXCEPT ![t] = "sd_snapshot"]
    /\ UNCHANGED <<_coordinatorsBySession, _stepUpCompletionStatus, result,
                   completion, continuation, numCreated, tasks,
                   wpc, wtask, aborted, registeredAt, sdCalls>>

\* Mutant: the hooks are called with the mutex held.
StepDownUnlock_Held(t) ==
    /\ Running
    /\ pc[t] = "sd_snapshot"
    /\ pc' = [pc EXCEPT ![t] = "sd_cancel"]
    /\ UNCHANGED <<_coordinatorsBySession, _mutex, _stepUpCompletionStatus, call, result,
                   coordinatorsToCancel, completion, continuation, numCreated, tasks,
                   wpc, wtask, aborted, registeredAt, sdExpected, sdCalls>>

\* ul.unlock()
StepDownUnlock(t) ==
    /\ Running
    /\ pc[t] = "sd_snapshot"
    /\ _mutex' = NoThread
    /\ pc' = [pc EXCEPT ![t] = "sd_cancel"]
    /\ UNCHANGED <<_coordinatorsBySession, _stepUpCompletionStatus, call, result,
                   coordinatorsToCancel, completion, continuation, numCreated, tasks,
                   wpc, wtask, aborted, registeredAt, sdExpected, sdCalls>>

\* coordinator->cancelIfCommitNotYetStarted() on the next coordinator of the
\* vector. The hook may complete the coordinator on this thread.
CancelNext(t) ==
    /\ Running
    /\ pc[t] = "sd_cancel"
    /\ coordinatorsToCancel[t] # <<>>
    /\ LET c == Head(coordinatorsToCancel[t])
       IN /\ sdCalls' = [sdCalls EXCEPT ![t][c] = @ + 1]
          /\ \/ /\ completion[c] = "pending"
                /\ ResolveCompletion(c, "error")
             \/ UNCHANGED <<completion, tasks, continuation>>
    /\ coordinatorsToCancel' = [coordinatorsToCancel EXCEPT ![t] = Tail(@)]
    /\ UNCHANGED <<_coordinatorsBySession, _mutex, _stepUpCompletionStatus, pc, call,
                   result, numCreated,
                   wpc, wtask, aborted, registeredAt, sdExpected>>

StepDownCancel(t) == CancelNext(t)

\* The same with a hook that calls back into the catalog on this thread: the
\* call locks the catalog mutex, reads, and unlocks.
StepDownCancelReentrant(t) ==
    /\ _mutex = NoThread
    /\ CancelNext(t)

StepDownReturn(t) ==
    /\ Running
    /\ pc[t] = "sd_cancel"
    /\ coordinatorsToCancel[t] = <<>>
    /\ pc' = [pc EXCEPT ![t] = "done"]
    /\ result' = [result EXCEPT ![t] = [NoResult EXCEPT !.status = StatusOK]]
    /\ UNCHANGED <<_coordinatorsBySession, _mutex, _stepUpCompletionStatus, call,
                   coordinatorsToCancel, completion, continuation, numCreated, tasks,
                   wpc, wtask, aborted, registeredAt, sdExpected, sdCalls>>

(***************************************************************************)
(* The catalog and its threads.                                            *)
(***************************************************************************)
ClientStep(t) ==
    \/ \E lsid \in LogicalSessionIds, txnNumber \in TxnNumbers, forStepUp \in BOOLEAN :
          InsertCall(t, lsid, txnNumber, forStepUp)
    \/ InsertStore(t)
    \/ InsertRegister(t)
    \/ \E lsid \in LogicalSessionIds, txnNumber \in TxnNumbers : GetCall(t, lsid, txnNumber)
    \/ \E lsid \in LogicalSessionIds : GetLatestCall(t, lsid)
    \/ Wake(t)
    \/ WaitInterrupted(t)
    \/ StepDownSnapshot(t)
    \/ StepDownUnlock(t)
    \/ StepDownCancel(t)
    \/ StepDownCancelReentrant(t)
    \/ StepDownReturn(t)
    \/ Return(t)

WorkerStep(w) ==
    \/ RemoveEraseTxn(w)
    \/ RemoveEraseSession(w)

CatalogNext ==
    \/ \E t \in Clients : ClientStep(t)
    \/ \E w \in Workers : WorkerStep(w)
    \/ \E status \in {StatusOK} \cup FailureStatuses : exitStepUp(status)
    \/ \E c \in Coordinators, how \in {"ok", "error"} : Complete(c, how)

SpecCatalog == Init /\ [][CatalogNext]_vars

\* The catalog without get and getLatestOnSession, which change nothing but
\* the caller's own result, under the scheduling the removal relies on: the
\* fixed executor keeps running queued continuations and gets the mutex when
\* it is free often enough, and a thread inside insert or onStepDown keeps
\* running.
WriterStep(t) ==
    \/ \E lsid \in LogicalSessionIds, txnNumber \in TxnNumbers, forStepUp \in BOOLEAN :
          InsertCall(t, lsid, txnNumber, forStepUp)
    \/ InsertStore(t)
    \/ InsertRegister(t)
    \/ Wake(t)
    \/ WaitInterrupted(t)
    \/ StepDownSnapshot(t)
    \/ StepDownUnlock(t)
    \/ StepDownCancel(t)
    \/ StepDownReturn(t)
    \/ Return(t)

CatalogWriterNext ==
    \/ \E t \in Clients : WriterStep(t)
    \/ \E w \in Workers : WorkerStep(w)
    \/ \E status \in {StatusOK} \cup FailureStatuses : exitStepUp(status)
    \/ \E c \in Coordinators, how \in {"ok", "error"} : Complete(c, how)

CatalogFairness ==
    /\ \A w \in Workers : SF_vars(RemoveEraseTxn(w)) /\ WF_vars(RemoveEraseSession(w))
    /\ \A t \in Clients : /\ WF_vars(InsertStore(t))
                          /\ WF_vars(InsertRegister(t))
                          /\ WF_vars(StepDownUnlock(t))

SpecCatalogFair == Init /\ [][CatalogWriterNext]_vars /\ CatalogFairness

(***************************************************************************)
(* join                                                                    *)
(***************************************************************************)
CatalogJoinPredicate_TimedOut(m) == TRUE

CatalogJoinPredicate_Never(m) == FALSE

\* The predicate of the wait_for on _noActiveCoordinatorsCV.
CatalogJoinPredicate(m) == m = EmptyMap

\* join() (the destructor calls it): under the mutex the predicate is
\* evaluated; the call returns if it holds and otherwise sleeps for up to 5
\* seconds, which releases the mutex.
CatalogJoinCall(t) ==
    /\ Running
    /\ pc[t] = "idle"
    /\ _mutex = NoThread
    /\ call' = [call EXCEPT ![t] = [NoCall EXCEPT !.op = "join"]]
    /\ IF CatalogJoinPredicate(_coordinatorsBySession)
       THEN /\ pc' = [pc EXCEPT ![t] = "done"]
            /\ result' = [result EXCEPT ![t] = [NoResult EXCEPT !.status = StatusOK]]
       ELSE /\ pc' = [pc EXCEPT ![t] = "j_asleep"]
            /\ UNCHANGED result
    /\ UNCHANGED <<_coordinatorsBySession, _mutex, _stepUpCompletionStatus,
                   coordinatorsToCancel, completion, continuation, numCreated, tasks,
                   wpc, wtask, aborted, registeredAt, sdExpected, sdCalls>>

\* The wait ends, by the notification of _remove or after its 5 seconds,
\* and takes the mutex: join returns if the map is empty; after a timeout
\* with sessions left it goes on to log them, with the mutex held.
CatalogJoinWake(t) ==
    /\ Running
    /\ pc[t] = "j_asleep"
    /\ _mutex = NoThread
    /\ IF CatalogJoinPredicate(_coordinatorsBySession)
       THEN /\ pc' = [pc EXCEPT ![t] = "done"]
            /\ result' = [result EXCEPT ![t] = [NoResult EXCEPT !.status = StatusOK]]
            /\ UNCHANGED _mutex
       ELSE /\ pc' = [pc EXCEPT ![t] = "j_logging"]
            /\ _mutex' = t
            /\ UNCHANGED result
    /\ UNCHANGED <<_coordinatorsBySession, _stepUpCompletionStatus, call,
                   coordinatorsToCancel, completion, continuation, numCreated, tasks,
                   wpc, wtask, aborted, registeredAt, sdExpected, sdCalls>>

\* The two LOG(0) lines of the loop body; the next wait_for releases the
\* mutex.
CatalogJoinLog(t) ==
    /\ Running
    /\ pc[t] = "j_logging"
    /\ pc' = [pc EXCEPT ![t] = "j_asleep"]
    /\ _mutex' = NoThread
    /\ UNCHANGED <<_coordinatorsBySession, _stepUpCompletionStatus, call, result,
                   coordinatorsToCancel, completion, continuation, numCreated, tasks,
                   wpc, wtask, aborted, registeredAt, sdExpected, sdCalls>>

\* The catalog with a thread that joins: inserts, completions, removals and
\* join.  The executor keeps running queued continuations, a thread that
\* holds the mutex goes on, and a wait that ended gets the mutex.
CatalogJoinStep(t) ==
    \/ \E lsid \in LogicalSessionIds, txnNumber \in TxnNumbers, forStepUp \in BOOLEAN :
          InsertCall(t, lsid, txnNumber, forStepUp)
    \/ InsertStore(t)
    \/ InsertRegister(t)
    \/ Wake(t)
    \/ WaitInterrupted(t)
    \/ CatalogJoinCall(t)
    \/ CatalogJoinWake(t)
    \/ CatalogJoinLog(t)
    \/ Return(t)

CatalogJoinNext ==
    \/ \E t \in Clients : CatalogJoinStep(t)
    \/ \E w \in Workers : WorkerStep(w)
    \/ \E status \in {StatusOK} \cup FailureStatuses : exitStepUp(status)
    \/ \E c \in Coordinators, how \in {"ok", "error"} : Complete(c, how)

CatalogJoinFairness ==
    /\ \A w \in Workers : SF_vars(RemoveEraseTxn(w)) /\ WF_vars(RemoveEraseSession(w))
    /\ \A t \in Clients : /\ WF_vars(InsertStore(t))
                          /\ WF_vars(InsertRegister(t))
                          /\ SF_vars(CatalogJoinWake(t))
                          /\ WF_vars(CatalogJoinLog(t))

SpecCatalogJoin == Init /\ [][CatalogJoinNext]_vars /\ CatalogJoinFairness

\* The gate: the calls that wait for step-up and exitStepUp.  A call that
\* was notified gets the mutex, and a thread inside insert keeps running.
GateStep(t) ==
    \/ \E lsid \in LogicalSessionIds, txnNumber \in TxnNumbers, forStepUp \in BOOLEAN :
          InsertCall(t, lsid, txnNumber, forStepUp)
    \/ InsertStore(t)
    \/ InsertRegister(t)
    \/ \E lsid \in LogicalSessionIds, txnNumber \in TxnNumbers : GetCall(t, lsid, txnNumber)
    \/ \E lsid \in LogicalSessionIds : GetLatestCall(t, lsid)
    \/ Wake(t)
    \/ WaitInterrupted(t)
    \/ Return(t)

CatalogGateNext ==
    \/ \E t \in Clients : GateStep(t)
    \/ \E status \in {StatusOK} \cup FailureStatuses : exitStepUp(status)

GateFairness ==
    \A t \in Clients : /\ SF_vars(Wake(t))
                        /\ WF_vars(InsertStore(t))
                        /\ WF_vars(InsertRegister(t))

SpecCatalogGate == Init /\ [][CatalogGateNext]_vars /\ GateFairness

(***************************************************************************)
(* txn::AsyncWorkScheduler: a tree of schedulers, each with its own _mutex *)
(* that guards its shutdown status, its active operation contexts, its     *)
(* in-flight handles and the list of its children.                         *)
(***************************************************************************)

\* A failed invariant() terminates the process.
SchedulerAbort(reason) ==
    /\ nodeState' = [n \in Nodes |-> IF n = 1 THEN "alive" ELSE "unborn"]
    /\ nodeMutex' = [n \in Nodes |-> NoThread]
    /\ _parent' = [n \in Nodes |-> NoNode]
    /\ _childSchedulers' = [n \in Nodes |-> <<>>]
    /\ _shutdownStatus' = [n \in Nodes |-> StatusOK]
    /\ _activeOpContexts' = [n \in Nodes |-> {}]
    /\ _activeHandles' = [n \in Nodes |-> {}]
    /\ killed' = [x \in Contexts |-> FALSE]
    /\ cancelRequested' = [h \in Handles |-> FALSE]
    /\ numNodes' = 1
    /\ numContexts' = 0
    /\ numHandles' = 0
    /\ spc' = [t \in SchedThreads |-> "idle"]
    /\ scall' = [t \in SchedThreads |-> NoShutdownCall]
    /\ frames' = [t \in SchedThreads |-> <<>>]
    /\ schedAborted' = reason

\* A step of the schedulers: the process is running; the catalog is not
\* touched.
SchedulerRunning ==
    /\ schedAborted = None
    /\ UNCHANGED catalogVars /\ UNCHANGED remoteVars /\ UNCHANGED execVars

_quiesced_NoChildren(n) == _activeOpContexts[n] = {} /\ _activeHandles[n] = {}

_quiesced(n) ==
    _activeOpContexts[n] = {} /\ _activeHandles[n] = {} /\ _childSchedulers[n] = <<>>

\* The node and everything below it, by the lists of children.
RECURSIVE SubtreeOf(_)
SubtreeOf(n) ==
    {n} \cup UNION {SubtreeOf(_childSchedulers[n][i]) : i \in DOMAIN _childSchedulers[n]}

RemoveFromSeq(s, e) == SelectSeq(s, LAMBDA x : x # e)

\* Every operation context that is active in the subtree of n.
ActiveContextsUnder(n) == UNION {_activeOpContexts[d] : d \in SubtreeOf(n)}

\* Every handle that is in flight in the subtree of n.
ActiveHandlesUnder(n) == UNION {_activeHandles[d] : d \in SubtreeOf(n)}

\* A thread is blocked in join() on n: asleep on _allListsEmptyCV, or woken
\* and about to take the lock again.
JoinPending(t) == spc[t] \in {"join_asleep", "join_notified"}

\* notify_all on _allListsEmptyCV of n: every thread asleep on it is woken.
Notified_None(n) == spc

Notified(n) ==
    [t \in SchedThreads |->
        IF spc[t] = "join_asleep" /\ scall[t].node = n THEN "join_notified" ELSE spc[t]]

_notifyAllTasksComplete_Skip(n) == spc' = spc

\* _notifyAllTasksComplete, called with the lock held after a removal.
_notifyAllTasksComplete(n) == spc' = IF _quiesced(n)' THEN Notified(n) ELSE spc

\* scheduleWork (a template of transaction_coordinator_futures_util.h): the
\* operation context of the callable joins the node's active set before the
\* callable starts.  Like scheduleRemoteCommand, it admits nothing on a node
\* whose shutdown status is set: the future fails with that status.
ScheduleWork(n) ==
    /\ SchedulerRunning
    /\ nodeState[n] = "alive"
    /\ nodeMutex[n] = NoThread
    /\ numContexts < MaxContexts
    /\ _shutdownStatus[n] = StatusOK
    /\ numContexts' = numContexts + 1
    /\ _activeOpContexts' = [_activeOpContexts EXCEPT ![n] = @ \cup {numContexts + 1}]
    /\ UNCHANGED <<nodeState, nodeMutex, _parent, _childSchedulers, _shutdownStatus,
                   _activeHandles, killed, cancelRequested, numNodes, numHandles,
                   spc, scall, frames, schedAborted>>

\* scheduleWork: the callable has finished; its context leaves the set and
\* is destroyed.
WorkFinishes(n, x) ==
    /\ SchedulerRunning
    /\ x \in _activeOpContexts[n]
    /\ nodeMutex[n] = NoThread
    /\ _activeOpContexts' = [_activeOpContexts EXCEPT ![n] = @ \ {x}]
    /\ killed' = [killed EXCEPT ![x] = FALSE]
    /\ UNCHANGED <<nodeState, nodeMutex, _parent, _childSchedulers, _shutdownStatus,
                   _activeHandles, cancelRequested, numNodes, numContexts,
                   numHandles, scall, frames, schedAborted>>
    /\ _notifyAllTasksComplete(n)

\* scheduleRemoteCommand, the critical section of the network path: a node
\* that is shut down throws; otherwise the command is handed to the executor
\* and its handle is tracked.
ScheduleRemoteCommand(n) ==
    /\ SchedulerRunning
    /\ nodeState[n] = "alive"
    /\ nodeMutex[n] = NoThread
    /\ numHandles < MaxHandles
    /\ _shutdownStatus[n] = StatusOK
    /\ numHandles' = numHandles + 1
    /\ _activeHandles' = [_activeHandles EXCEPT ![n] = @ \cup {numHandles + 1}]
    /\ UNCHANGED <<nodeState, nodeMutex, _parent, _childSchedulers, _shutdownStatus,
                   _activeOpContexts, killed, cancelRequested, numNodes, numContexts,
                   spc, scall, frames, schedAborted>>

\* scheduleRemoteCommand, tapAll: the future resolved, the handle is erased
\* and destroyed.
RemoteCommandResolves(n, h) ==
    /\ SchedulerRunning
    /\ h \in _activeHandles[n]
    /\ nodeMutex[n] = NoThread
    /\ _activeHandles' = [_activeHandles EXCEPT ![n] = @ \ {h}]
    /\ cancelRequested' = [cancelRequested EXCEPT ![h] = FALSE]
    /\ UNCHANGED <<nodeState, nodeMutex, _parent, _childSchedulers, _shutdownStatus,
                   _activeOpContexts, killed, numNodes, numContexts,
                   numHandles, scall, frames, schedAborted>>
    /\ _notifyAllTasksComplete(n)

\* makeChildScheduler: the status a new child of n starts with.  A parent
\* that is shut down shuts the child down with its own status.
InheritedStatus_OK(n) == StatusOK

InheritedStatus(n) == _shutdownStatus[n]

\* makeChildScheduler: under the parent's lock, the child inherits a
\* shutdown that was already recorded and is linked at the front of the list.
makeChildScheduler(n) ==
    LET child == numNodes + 1
    IN /\ SchedulerRunning
       /\ nodeState[n] = "alive"
       /\ nodeMutex[n] = NoThread
       /\ numNodes < MaxNodes
       /\ numNodes' = child
       /\ nodeState' = [nodeState EXCEPT ![child] = "alive"]
       /\ _shutdownStatus' = [_shutdownStatus EXCEPT ![child] = InheritedStatus(n)]
       /\ _parent' = [_parent EXCEPT ![child] = n]
       /\ _childSchedulers' = [_childSchedulers EXCEPT ![n] = <<child>> \o @]
       /\ UNCHANGED <<nodeMutex, _activeOpContexts, _activeHandles, killed,
                      cancelRequested, numContexts, numHandles, spc, scall, frames,
                      schedAborted>>

\* ~AsyncWorkScheduler, first critical section: the node must be quiesced.
\* The owner destroys a node that no thread is blocked in.
DestructorCheck(n) ==
    /\ SchedulerRunning
    /\ nodeState[n] = "alive"
    /\ nodeMutex[n] = NoThread
    /\ \A t \in SchedThreads : ~(JoinPending(t) /\ scall[t].node = n)
    /\ IF ~_quiesced(n)
       THEN SchedulerAbort("~AsyncWorkScheduler: invariant(_quiesced(lg))")
       ELSE /\ nodeState' = [nodeState EXCEPT ![n] =
                                IF _parent[n] = NoNode THEN "destroyed" ELSE "destroying"]
            /\ UNCHANGED <<nodeMutex, _parent, _childSchedulers, _shutdownStatus,
                           _activeOpContexts, _activeHandles, killed, cancelRequested,
                           numNodes, numContexts, numHandles, spc, scall, frames,
                           schedAborted>>

\* ~AsyncWorkScheduler: _parent->_notifyAllTasksComplete(lg).
DestructorNotify_None(p) == UNCHANGED spc

DestructorNotify(p) == _notifyAllTasksComplete(p)

\* ~AsyncWorkScheduler, second critical section: under the parent's lock the
\* node leaves the parent's list.
DestructorUnlink(n) ==
    /\ SchedulerRunning
    /\ nodeState[n] = "destroying"
    /\ nodeMutex[_parent[n]] = NoThread
    /\ _childSchedulers' = [_childSchedulers EXCEPT ![_parent[n]] = RemoveFromSeq(@, n)]
    /\ _parent' = [_parent EXCEPT ![n] = NoNode]
    /\ nodeState' = [nodeState EXCEPT ![n] = "destroyed"]
    /\ UNCHANGED <<nodeMutex, _shutdownStatus, _activeOpContexts, _activeHandles,
                   killed, cancelRequested, numNodes, numContexts, numHandles,
                   scall, frames, schedAborted>>
    /\ \E p \in {_parent[n]} : DestructorNotify(p)

\* shutdown, the first transition of a node whose lock is held: the status
\* is recorded, every active context is killed and every handle cancelled.
ShutdownNode_NoKill(n, status) ==
    /\ _shutdownStatus' = [_shutdownStatus EXCEPT ![n] = status]
    /\ killed' = killed
    /\ cancelRequested' = [h \in Handles |-> cancelRequested[h] \/ h \in _activeHandles[n]]

ShutdownNode_Global(n, status) ==
    /\ _shutdownStatus' = [_shutdownStatus EXCEPT ![n] = status]
    /\ killed' = [x \in Contexts |->
                      killed[x] \/ \E m \in Nodes : x \in _activeOpContexts[m]]
    /\ cancelRequested' = [h \in Handles |->
                      cancelRequested[h] \/ \E m \in Nodes : h \in _activeHandles[m]]

ShutdownNode(n, status) ==
    /\ _shutdownStatus' = [_shutdownStatus EXCEPT ![n] = status]
    /\ killed' = [x \in Contexts |-> killed[x] \/ x \in _activeOpContexts[n]]
    /\ cancelRequested' = [h \in Handles |-> cancelRequested[h] \/ h \in _activeHandles[n]]

ContextsAfterShutdown_Cleared(n) == [_activeOpContexts EXCEPT ![n] = {}]

\* shutdown, the loop over _activeOpContexts: it calls killOperation on each
\* context and erases none.
ContextsAfterShutdown(n) == _activeOpContexts

\* shutdown, the children the call goes on to shut down.
ChildrenToShutDown_None(n) == <<>>

ChildrenToShutDown_WithParent(n) ==
    _childSchedulers[n] \o (IF _parent[n] = NoNode THEN <<>> ELSE <<_parent[n]>>)

ChildrenToShutDown(n) == _childSchedulers[n]

\* shutdown, the early return: the node has a shutdown status already.
AlreadyShutDown_Never(n) == FALSE

AlreadyShutDown(n) == _shutdownStatus[n] # StatusOK

\* shutdown(status) called on a node from outside.  The ghost fields of scall
\* record the contexts and handles that are active in the subtree when the
\* call is made.
shutdown(t, n, status) ==
    /\ SchedulerRunning
    /\ spc[t] = "idle"
    /\ nodeState[n] = "alive"
    /\ IF status = StatusOK
       THEN SchedulerAbort("shutdown: invariant(!status.isOK())")
       ELSE /\ nodeMutex[n] = NoThread
            /\ scall' = [scall EXCEPT ![t] =
                   [node |-> n, reason |-> status,
                    first |-> _shutdownStatus[n] = StatusOK,
                    contexts |-> ActiveContextsUnder(n),
                    handles |-> ActiveHandlesUnder(n)]]
            /\ IF AlreadyShutDown(n)
               THEN /\ spc' = [spc EXCEPT ![t] = "returned"]
                    /\ UNCHANGED <<nodeMutex, _shutdownStatus, killed, cancelRequested,
                                   frames, _activeOpContexts>>
               ELSE /\ spc' = [spc EXCEPT ![t] = "cascading"]
                    /\ nodeMutex' = [nodeMutex EXCEPT ![n] = t]
                    /\ ShutdownNode(n, status)
                    /\ _activeOpContexts' = ContextsAfterShutdown(n)
                    /\ frames' = [frames EXCEPT ![t] =
                                     <<[node |-> n, todo |-> ChildrenToShutDown(n)]>>]
            /\ UNCHANGED <<nodeState, _parent, _childSchedulers,
                           _activeHandles, numNodes, numContexts, numHandles,
                           schedAborted>>

\* shutdown, the loop over the children: child->shutdown(_shutdownStatus)
\* takes the child's lock while the parent's lock is held.
ShutdownChild(t) ==
    /\ SchedulerRunning
    /\ spc[t] = "cascading"
    /\ LET depth == Len(frames[t])
           top == frames[t][depth]
           child == Head(top.todo)
           rest == [frames[t] EXCEPT ![depth].todo = Tail(top.todo)]
       IN /\ top.todo # <<>>
          /\ nodeMutex[child] = NoThread
          /\ IF AlreadyShutDown(child)
             THEN /\ frames' = [frames EXCEPT ![t] = rest]
                  /\ UNCHANGED <<nodeMutex, _shutdownStatus, killed, cancelRequested,
                                 _activeOpContexts>>
             ELSE /\ nodeMutex' = [nodeMutex EXCEPT ![child] = t]
                  /\ ShutdownNode(child, scall[t].reason)
                  /\ _activeOpContexts' = ContextsAfterShutdown(child)
                  /\ frames' = [frames EXCEPT ![t] =
                         Append(rest, [node |-> child, todo |-> ChildrenToShutDown(child)])]
    /\ UNCHANGED <<nodeState, _parent, _childSchedulers,
                   _activeHandles, numNodes, numContexts, numHandles, spc, scall,
                   schedAborted>>

\* shutdown, the end of a call: its lock_guard releases the node's lock.
ShutdownUnlock(t) ==
    /\ SchedulerRunning
    /\ spc[t] = "cascading"
    /\ LET depth == Len(frames[t])
           top == frames[t][depth]
       IN /\ top.todo = <<>>
          /\ nodeMutex' = [nodeMutex EXCEPT ![top.node] = NoThread]
          /\ frames' = [frames EXCEPT ![t] = SubSeq(@, 1, depth - 1)]
          /\ spc' = [spc EXCEPT ![t] = IF depth = 1 THEN "returned" ELSE "cascading"]
    /\ UNCHANGED <<nodeState, _parent, _childSchedulers, _shutdownStatus,
                   _activeOpContexts, _activeHandles, killed, cancelRequested, numNodes,
                   numContexts, numHandles, scall, schedAborted>>

\* The caller goes on after shutdown returned.
ShutdownReturn(t) ==
    /\ SchedulerRunning
    /\ spc[t] = "returned"
    /\ spc' = [spc EXCEPT ![t] = "idle"]
    /\ scall' = [scall EXCEPT ![t] = NoShutdownCall]
    /\ UNCHANGED <<nodeState, nodeMutex, _parent, _childSchedulers, _shutdownStatus,
                   _activeOpContexts, _activeHandles, killed, cancelRequested, numNodes,
                   numContexts, numHandles, frames, schedAborted>>


\* join, the predicate of the wait on _allListsEmptyCV.
JoinPredicate_NoChildren(n) == _activeOpContexts[n] = {} /\ _activeHandles[n] = {}

JoinPredicate(n) ==
    _activeOpContexts[n] = {} /\ _activeHandles[n] = {} /\ _childSchedulers[n] = <<>>

\* join() called on a node: under the lock the predicate is evaluated; the
\* call returns if it holds and otherwise sleeps, which releases the lock.
join(t, n) ==
    /\ SchedulerRunning
    /\ spc[t] = "idle"
    /\ nodeState[n] = "alive"
    /\ nodeMutex[n] = NoThread
    /\ scall' = [scall EXCEPT ![t] = [NoShutdownCall EXCEPT !.node = n]]
    /\ spc' = [spc EXCEPT ![t] = IF JoinPredicate(n) THEN "join_returned"
                                                     ELSE "join_asleep"]
    /\ UNCHANGED <<nodeState, nodeMutex, _parent, _childSchedulers, _shutdownStatus,
                   _activeOpContexts, _activeHandles, killed, cancelRequested, numNodes,
                   numContexts, numHandles, frames, schedAborted>>

\* join, a wake-up without a notification, which a condition variable may
\* deliver at any time.
JoinSpuriousWake(t) ==
    /\ SchedulerRunning
    /\ spc[t] = "join_asleep"
    /\ spc' = [spc EXCEPT ![t] = "join_notified"]
    /\ UNCHANGED <<nodeState, nodeMutex, _parent, _childSchedulers, _shutdownStatus,
                   _activeOpContexts, _activeHandles, killed, cancelRequested, numNodes,
                   numContexts, numHandles, scall, frames, schedAborted>>

\* join, the woken thread takes the lock again and evaluates the predicate.
JoinWake(t) ==
    /\ SchedulerRunning
    /\ spc[t] = "join_notified"
    /\ nodeMutex[scall[t].node] = NoThread
    /\ spc' = [spc EXCEPT ![t] = IF JoinPredicate(scall[t].node) THEN "join_returned"
                                                                 ELSE "join_asleep"]
    /\ UNCHANGED <<nodeState, nodeMutex, _parent, _childSchedulers, _shutdownStatus,
                   _activeOpContexts, _activeHandles, killed, cancelRequested, numNodes,
                   numContexts, numHandles, scall, frames, schedAborted>>

\* The caller goes on after join returned.
JoinReturn(t) ==
    /\ SchedulerRunning
    /\ spc[t] = "join_returned"
    /\ spc' = [spc EXCEPT ![t] = "idle"]
    /\ scall' = [scall EXCEPT ![t] = NoShutdownCall]
    /\ UNCHANGED <<nodeState, nodeMutex, _parent, _childSchedulers, _shutdownStatus,
                   _activeOpContexts, _activeHandles, killed, cancelRequested, numNodes,
                   numContexts, numHandles, frames, schedAborted>>

SchedulerNext ==
    \/ \E n \in Nodes : ScheduleWork(n)
    \/ \E n \in Nodes, x \in Contexts : WorkFinishes(n, x)
    \/ \E n \in Nodes : ScheduleRemoteCommand(n)
    \/ \E n \in Nodes, h \in Handles : RemoteCommandResolves(n, h)
    \/ \E n \in Nodes : makeChildScheduler(n)
    \/ \E n \in Nodes : DestructorCheck(n)
    \/ \E n \in Nodes : DestructorUnlink(n)
    \/ \E t \in SchedThreads, n \in Nodes :
           \E status \in {StatusOK, StatusOf(t)} : shutdown(t, n, status)
    \/ \E t \in SchedThreads : ShutdownChild(t)
    \/ \E t \in SchedThreads : ShutdownUnlock(t)
    \/ \E t \in SchedThreads : ShutdownReturn(t)

SpecScheduler == Init /\ [][SchedulerNext]_vars

\* The schedulers with threads that join: the first thread shuts down, the
\* others join.
ShutdownThreads == {1}
JoinThreads == SchedThreads \ ShutdownThreads

SchedulerJoinNext ==
    \/ \E n \in Nodes : ScheduleWork(n)
    \/ \E n \in Nodes, x \in Contexts : WorkFinishes(n, x)
    \/ \E n \in Nodes : ScheduleRemoteCommand(n)
    \/ \E n \in Nodes, h \in Handles : RemoteCommandResolves(n, h)
    \/ \E n \in Nodes : makeChildScheduler(n)
    \/ \E n \in Nodes : DestructorCheck(n)
    \/ \E n \in Nodes : DestructorUnlink(n)
    \/ \E t \in ShutdownThreads, n \in Nodes : shutdown(t, n, StatusOf(t))
    \/ \E t \in ShutdownThreads : ShutdownChild(t)
    \/ \E t \in ShutdownThreads : ShutdownUnlock(t)
    \/ \E t \in ShutdownThreads : ShutdownReturn(t)
    \/ \E t \in JoinThreads, n \in Nodes : join(t, n)
    \/ \E t \in JoinThreads : JoinSpuriousWake(t)
    \/ \E t \in JoinThreads : JoinWake(t)
    \/ \E t \in JoinThreads : JoinReturn(t)

\* A thread inside a critical section leaves it, a woken thread takes the
\* lock, and a destructor that passed its check goes on to unlink.
SchedulerFairness ==
    /\ \A t \in SchedThreads : /\ WF_vars(ShutdownChild(t))
                                /\ WF_vars(ShutdownUnlock(t))
                                /\ WF_vars(JoinWake(t))
    /\ \A n \in Nodes : WF_vars(DestructorUnlink(n))

SpecSchedulerJoin == Init /\ [][SchedulerJoinNext]_vars /\ SchedulerFairness

(***************************************************************************)
(* scheduleRemoteCommand, call by call.  A call either goes through the    *)
(* loopback (the target is this process's own shard) or resolves a host    *)
(* and hands the command to the executor.                                  *)
(***************************************************************************)

\* A step of a scheduleRemoteCommand call: the process is running; the
\* catalog is not touched.
RemoteRunning == schedAborted = None /\ UNCHANGED catalogVars /\ UNCHANGED execVars

\* getLocalShardId, for the two roles of a sharded system.
getLocalShardId(role) ==
    IF role = "ConfigServer" THEN kConfigServerShardId ELSE ThisShardId

IsSelfShard_Never(shardId, role) == FALSE

\* isSelfShard, the first statement of scheduleRemoteCommand.
IsSelfShard(shardId, role) == shardId = getLocalShardId(role)

ThenContinues_Always(outcome) == TRUE

\* .then(...) on the future of _targetHostAsync: the continuation that
\* builds and schedules the request runs only on a resolved host.
ThenContinues(outcome) == outcome = "host"

CallbackError_Generic(n, status) == status

\* The error the callback sets on the promise for a failed send: a
\* CallbackCanceled is replaced by the shutdown status if there is one.
CallbackError(n, status) ==
    IF status = CallbackCanceled
        THEN IF _shutdownStatus[n] = StatusOK THEN status ELSE _shutdownStatus[n]
        ELSE status

\* The outcomes of the callable of _targetHostAsync: getShard throws
\* ShardNotFound, findHostWithMaxWait gives up after its wait or .get(opCtx)
\* is interrupted with the code the context was killed with.
TargetingOutcomes(n, x) ==
    {"host", "ShardNotFound", "FailedToSatisfyReadPreference"}
        \cup (IF killed[x] THEN {_shutdownStatus[n]} ELSE {})

\* The outcomes of the loopback callable: the response of the entry point,
\* or the interruption of a killed context.
LoopbackOutcomes(n, x) ==
    {StatusOK} \cup (IF killed[x] THEN {_shutdownStatus[n]} ELSE {})

\* scheduleWork (a template of transaction_coordinator_futures_util.h) runs
\* the callable with a context of its own on a node that is not shut down;
\* on a node that is shut down its future fails with the shutdown status.
ScheduleWorkAdmits(n) == _shutdownStatus[n] = StatusOK

\* scheduleRemoteCommand up to the scheduleWork of either path.  Outside a
\* sharded system getLocalShardId is MONGO_UNREACHABLE.
RemoteStart(k, n, shardId, role) ==
    /\ RemoteRunning
    /\ cmd[k].pc = "idle"
    /\ nodeState[n] = "alive"
    /\ nodeMutex[n] = NoThread
    /\ numContexts < MaxContexts
    /\ IF role = "None"
       THEN /\ SchedulerAbort("getLocalShardId: MONGO_UNREACHABLE")
            /\ cmd' = [j \in Commands |-> NoCommand]
       ELSE /\ IF ScheduleWorkAdmits(n)
               THEN /\ numContexts' = numContexts + 1
                    /\ _activeOpContexts' =
                           [_activeOpContexts EXCEPT ![n] = @ \cup {numContexts + 1}]
                    /\ cmd' = [cmd EXCEPT ![k] =
                           [@ EXCEPT !.pc = IF IsSelfShard(shardId, role)
                                                THEN "loopback" ELSE "targeting",
                                     !.node = n, !.shardId = shardId, !.role = role,
                                     !.self = IsSelfShard(shardId, role),
                                     !.ctx = numContexts + 1]]
               ELSE /\ cmd' = [cmd EXCEPT ![k] =
                           [@ EXCEPT !.pc = "done",
                                     !.node = n, !.shardId = shardId, !.role = role,
                                     !.self = IsSelfShard(shardId, role),
                                     !.result = _shutdownStatus[n]]]
                    /\ UNCHANGED <<numContexts, _activeOpContexts>>
            /\ UNCHANGED <<nodeState, nodeMutex, _parent, _childSchedulers,
                           _shutdownStatus, _activeHandles, killed, cancelRequested,
                           numNodes, numHandles, spc, scall, frames, schedAborted>>

\* The loopback callable has run the command through the entry point of
\* this process; its context leaves the set and the future resolves.
RemoteLoopbackFinishes(k, outcome) ==
    /\ RemoteRunning
    /\ cmd[k].pc = "loopback"
    /\ nodeMutex[cmd[k].node] = NoThread
    /\ outcome \in LoopbackOutcomes(cmd[k].node, cmd[k].ctx)
    /\ cmd' = [cmd EXCEPT ![k] = [@ EXCEPT !.pc = "done", !.ctx = 0,
                                            !.result = outcome]]
    /\ _activeOpContexts' = [_activeOpContexts EXCEPT ![cmd[k].node] = @ \ {cmd[k].ctx}]
    /\ killed' = [killed EXCEPT ![cmd[k].ctx] = FALSE]
    /\ UNCHANGED <<nodeState, nodeMutex, _parent, _childSchedulers, _shutdownStatus,
                   _activeHandles, cancelRequested, numNodes, numContexts,
                   numHandles, scall, frames, schedAborted>>
    /\ \E n \in {cmd[k].node} : _notifyAllTasksComplete(n)

\* The callable of _targetHostAsync has finished; its context leaves the
\* set.  A failure is the result of the whole call.
RemoteTargetingFinishes(k, outcome) ==
    /\ RemoteRunning
    /\ cmd[k].pc = "targeting"
    /\ nodeMutex[cmd[k].node] = NoThread
    /\ outcome \in TargetingOutcomes(cmd[k].node, cmd[k].ctx)
    /\ cmd' = [cmd EXCEPT ![k] =
           [@ EXCEPT !.pc = IF ThenContinues(outcome) THEN "targeted" ELSE "done",
                     !.ctx = 0, !.resolved = TRUE, !.targeting = outcome,
                     !.result = IF ThenContinues(outcome) THEN None ELSE outcome]]
    /\ _activeOpContexts' = [_activeOpContexts EXCEPT ![cmd[k].node] = @ \ {cmd[k].ctx}]
    /\ killed' = [killed EXCEPT ![cmd[k].ctx] = FALSE]
    /\ UNCHANGED <<nodeState, nodeMutex, _parent, _childSchedulers, _shutdownStatus,
                   _activeHandles, cancelRequested, numNodes, numContexts,
                   numHandles, scall, frames, schedAborted>>
    /\ \E n \in {cmd[k].node} : _notifyAllTasksComplete(n)

IssueRefused_Never(n) == FALSE

\* uassertStatusOK(_shutdownStatus) in the continuation, under the lock.
IssueRefused(n) == _shutdownStatus[n] # StatusOK

\* The continuation, under the lock: a node that is shut down throws its
\* status; otherwise the executor is called and either refuses the command
\* or returns the handle, which is tracked.
RemoteIssue(k, accepted) ==
    /\ RemoteRunning
    /\ cmd[k].pc = "targeted"
    /\ nodeMutex[cmd[k].node] = NoThread
    /\ IF IssueRefused(cmd[k].node)
       THEN /\ accepted
            /\ cmd' = [cmd EXCEPT ![k] =
                   [@ EXCEPT !.pc = "done", !.result = _shutdownStatus[cmd[k].node]]]
            /\ UNCHANGED <<numHandles, _activeHandles>>
       ELSE IF accepted
       THEN /\ numHandles < MaxHandles
            /\ numHandles' = numHandles + 1
            /\ _activeHandles' =
                   [_activeHandles EXCEPT ![cmd[k].node] = @ \cup {numHandles + 1}]
            /\ cmd' = [cmd EXCEPT ![k] =
                   [@ EXCEPT !.pc = "inflight", !.issued = TRUE,
                             !.handle = numHandles + 1]]
       ELSE /\ cmd' = [cmd EXCEPT ![k] =
                   [@ EXCEPT !.pc = "done", !.issued = TRUE,
                             !.result = "ShutdownInProgress"]]
            /\ UNCHANGED <<numHandles, _activeHandles>>
    /\ UNCHANGED <<nodeState, nodeMutex, _parent, _childSchedulers, _shutdownStatus,
                   _activeOpContexts, killed, cancelRequested, numNodes, numContexts,
                   spc, scall, frames, schedAborted>>

CallbackResult_Decoded(n, transport, data) ==
    IF transport = StatusOK
        THEN (IF data = "ok" THEN StatusOK ELSE data)
        ELSE CallbackError(n, transport)

\* What the callback puts in the promise: the response as a value when the
\* transport status is OK, whatever getStatusFromCommandResult and
\* getWriteConcernStatusFromCommandResult find in it, and an error otherwise.
CallbackResult(n, transport, data) ==
    IF transport = StatusOK THEN StatusOK ELSE CallbackError(n, transport)

\* The callback the executor runs with the transport result.  It reads the
\* shutdown status, under the lock, only for a CallbackCanceled.  A response
\* has data only when the transport status is OK.
RemoteCallback(k, transport, data) ==
    /\ RemoteRunning
    /\ cmd[k].pc = "inflight"
    /\ transport = CallbackCanceled => nodeMutex[cmd[k].node] = NoThread
    /\ (transport = StatusOK) <=> (data \in ResponseData)
    /\ cmd' = [cmd EXCEPT ![k] =
           [@ EXCEPT !.pc = "called_back", !.transport = transport,
                     !.data = data,
                     !.result = CallbackResult(cmd[k].node, transport, data)]]
    /\ UNCHANGED schedVars

EraseHandle_Keep(handles, h) == handles

\* _activeHandles.erase(it) in tapAll.
EraseHandle(handles, h) == handles \ {h}

\* tapAll: the future resolved, the handle is erased and destroyed.
RemoteTapAll(k) ==
    /\ RemoteRunning
    /\ cmd[k].pc = "called_back"
    /\ nodeMutex[cmd[k].node] = NoThread
    /\ cmd' = [cmd EXCEPT ![k] = [@ EXCEPT !.pc = "done", !.handle = 0]]
    /\ _activeHandles' = [_activeHandles EXCEPT ![cmd[k].node] =
                               EraseHandle(@, cmd[k].handle)]
    /\ cancelRequested' = [cancelRequested EXCEPT ![cmd[k].handle] = FALSE]
    /\ UNCHANGED <<nodeState, nodeMutex, _parent, _childSchedulers, _shutdownStatus,
                   _activeOpContexts, killed, numNodes, numContexts,
                   numHandles, scall, frames, schedAborted>>
    /\ \E n \in {cmd[k].node} : _notifyAllTasksComplete(n)

RemoteNext ==
    \/ \E k \in Commands, n \in Nodes, shardId \in ShardIds, role \in ClusterRoles :
           RemoteStart(k, n, shardId, role)
    \/ \E k \in Commands, outcome \in {StatusOK} \cup ShutdownReasons :
           RemoteLoopbackFinishes(k, outcome)
    \/ \E k \in Commands, outcome \in {"host"} \cup TargetingFailures \cup ShutdownReasons :
           RemoteTargetingFinishes(k, outcome)
    \/ \E k \in Commands, accepted \in BOOLEAN : RemoteIssue(k, accepted)
    \/ \E k \in Commands, transport \in TransportStatuses,
              data \in ResponseData \cup {None} : RemoteCallback(k, transport, data)
    \/ \E k \in Commands : RemoteTapAll(k)
    \/ \E n \in Nodes : makeChildScheduler(n)
    \/ \E t \in SchedThreads, n \in Nodes : shutdown(t, n, StatusOf(t))
    \/ \E t \in SchedThreads : ShutdownChild(t)
    \/ \E t \in SchedThreads : ShutdownUnlock(t)
    \/ \E t \in SchedThreads : ShutdownReturn(t)

SpecRemote == Init /\ [][RemoteNext]_vars

\* scheduleRemoteCommand with a thread that shuts down and threads that join.
RemoteJoinNext ==
    \/ \E k \in Commands, n \in Nodes, shardId \in ShardIds, role \in ClusterRoles :
           RemoteStart(k, n, shardId, role)
    \/ \E k \in Commands, outcome \in {StatusOK} \cup ShutdownReasons :
           RemoteLoopbackFinishes(k, outcome)
    \/ \E k \in Commands, outcome \in {"host"} \cup TargetingFailures \cup ShutdownReasons :
           RemoteTargetingFinishes(k, outcome)
    \/ \E k \in Commands, accepted \in BOOLEAN : RemoteIssue(k, accepted)
    \/ \E k \in Commands, transport \in TransportStatuses,
              data \in ResponseData \cup {None} : RemoteCallback(k, transport, data)
    \/ \E k \in Commands : RemoteTapAll(k)
    \/ \E n \in Nodes : makeChildScheduler(n)
    \/ \E t \in ShutdownThreads, n \in Nodes : shutdown(t, n, StatusOf(t))
    \/ \E t \in ShutdownThreads : ShutdownChild(t)
    \/ \E t \in ShutdownThreads : ShutdownUnlock(t)
    \/ \E t \in ShutdownThreads : ShutdownReturn(t)
    \/ \E t \in JoinThreads, n \in Nodes : join(t, n)
    \/ \E t \in JoinThreads : JoinSpuriousWake(t)
    \/ \E t \in JoinThreads : JoinWake(t)
    \/ \E t \in JoinThreads : JoinReturn(t)

SpecRemoteJoin == Init /\ [][RemoteJoinNext]_vars

(***************************************************************************)
(* ThreadPoolTaskExecutor (thread_pool_task_executor.cpp).  Every critical *)
(* section of the executor's _mutex is one step; the callbacks are         *)
(* scheduled without a baton.                                              *)
(***************************************************************************)
\* enum State, in the order that _inShutdown_inlock compares by.
StateRank(s) ==
    CASE s = "preStart" -> 0
      [] s = "running" -> 1
      [] s = "joinRequired" -> 2
      [] s = "joining" -> 3
      [] s = "shutdownComplete" -> 4

_inShutdown_inlock == StateRank(_state) >= StateRank("joinRequired")

\* The members of a work queue.
InQueue(q) == {c \in Callbacks : cbStates[c].queue = q}

\* eventState->waiters
WaitersOf(e) == {c \in InQueue("waiters") : cbStates[c].event = e}

\* _unsignaledEvents
UnsignaledEvents == {e \in Events : eventStates[e] = "unsignaled"}

\* A step of the executor: the process is running; nothing else is touched.
ExecutorRunning ==
    execAborted = None /\ UNCHANGED <<catalogVars, schedVars, remoteVars>>

\* A failed invariant() terminates the process.
ExecutorAbort(reason) ==
    /\ _state' = "preStart"
    /\ _pool' = "notStarted"
    /\ cbStates' = [c \in Callbacks |-> NoCallbackState]
    /\ eventStates' = [e \in Events |-> "unmade"]
    /\ epc' = [t \in ExecThreads |-> "idle"]
    /\ execAborted' = reason

\* The callback state and the event that the next call constructs.
NextCallback == CHOOSE c \in Callbacks :
    cbStates[c].queue = "unmade" /\ \A d \in 1..(c - 1) : cbStates[d].queue # "unmade"

NextEvent == CHOOSE e \in Events :
    eventStates[e] = "unmade" /\ \A d \in 1..(e - 1) : eventStates[d] # "unmade"

SpliceIntoPool_Copy(s, c) ==
    IF c \in s THEN [cbStates[c] EXCEPT !.task = "todo", !.moved = @ + 1]
    ELSE cbStates[c]

\* scheduleIntoPool_inlock, under the lock: the callbacks leave their queue
\* for _poolInProgressQueue and are noted in todo.
SpliceIntoPool(s, c) ==
    IF c \in s
        THEN [cbStates[c] EXCEPT !.queue = "pool", !.task = "todo", !.moved = @ + 1]
        ELSE cbStates[c]

scheduleIntoPool_inlock(s) == [c \in Callbacks |-> SpliceIntoPool(s, c)]

enqueueCallbackState_inlock_NoCheck(c, q, kind, e) ==
    [cbStates EXCEPT ![c] = [@ EXCEPT !.queue = q, !.kind = kind, !.event = e]]

\* enqueueCallbackState_inlock: ShutdownInProgress, or the singleton is
\* spliced to the end of the queue.
enqueueCallbackState_inlock(c, q, kind, e) ==
    IF _inShutdown_inlock
        THEN [cbStates EXCEPT ![c] = [@ EXCEPT !.queue = "refused", !.kind = kind]]
        ELSE [cbStates EXCEPT ![c] = [@ EXCEPT !.queue = q, !.kind = kind, !.event = e]]

\* startup
ExecutorStartup ==
    /\ ExecutorRunning
    /\ IF _state # "preStart"
       THEN ExecutorAbort("startup: invariant(_state == preStart)")
       ELSE /\ _state' = "running"
            /\ _pool' = "running"
            /\ UNCHANGED <<cbStates, eventStates, epc, execAborted>>

\* The callbacks shutdown cancels and hands to the pool: the network
\* operations, the sleepers and the waiters of the unsignaled events.
ShutdownPending ==
    InQueue("network") \cup InQueue("sleepers")
        \cup UNION {WaitersOf(e) : e \in UnsignaledEvents}

\* shutdown
ExecutorShutdown ==
    /\ ExecutorRunning
    /\ IF _inShutdown_inlock
       THEN IF InQueue("network") # {}
            THEN ExecutorAbort("shutdown: invariant(_networkInProgressQueue.empty())")
            ELSE IF InQueue("sleepers") # {}
            THEN ExecutorAbort("shutdown: invariant(_sleepersQueue.empty())")
            ELSE UNCHANGED execVars
       ELSE /\ _state' = "joinRequired"
            /\ cbStates' =
                   [c \in Callbacks |->
                       [SpliceIntoPool(ShutdownPending, c) EXCEPT
                           !.canceled = @ \/ c \in ShutdownPending \cup InQueue("pool")]]
            /\ UNCHANGED <<_pool, eventStates, epc, execAborted>>

\* scheduleIntoPool_inlock after the unlock: _pool->schedule.  A pool that
\* is shut down runs the task at once, on the calling thread, with a
\* cancellation status, and the task sets the canceled flag.
PoolSchedule(c) ==
    /\ ExecutorRunning
    /\ cbStates[c].task = "todo"
    /\ cbStates' = [cbStates EXCEPT ![c] =
           IF _pool = "shutdown"
               THEN [@ EXCEPT !.task = "inline", !.canceled = TRUE]
               ELSE [@ EXCEPT !.task = "queued"]]
    /\ UNCHANGED <<_state, _pool, eventStates, epc, execAborted>>

\* runCallback, the status of the CallbackArgs.
RunCallbackStatus(canceled) == IF canceled THEN CallbackCanceled ELSE StatusOK

\* runCallback up to the call of the callback, on a thread of the pool.
RunCallbackStart(c) ==
    /\ ExecutorRunning
    /\ \/ cbStates[c].task = "queued" /\ _pool = "running"
       \/ cbStates[c].task = "inline"
    /\ IF cbStates[c].isFinished
       THEN ExecutorAbort("runCallback: invariant(!isFinished)")
       ELSE /\ cbStates' = [cbStates EXCEPT ![c] =
                   [@ EXCEPT !.task = "running",
                             !.status = RunCallbackStatus(cbStates[c].canceled)]]
            /\ UNCHANGED <<_state, _pool, eventStates, epc, execAborted>>

\* runCallback after the callback returned: isFinished, and under the lock
\* the erase from _poolInProgressQueue.
RunCallbackFinish(c) ==
    /\ ExecutorRunning
    /\ cbStates[c].task = "running"
    /\ cbStates' = [cbStates EXCEPT ![c] =
           [@ EXCEPT !.task = "none", !.isFinished = TRUE, !.queue = "erased"]]
    /\ UNCHANGED <<_state, _pool, eventStates, epc, execAborted>>

\* scheduleWork, and scheduleWorkAt with a time that is not in the future.
ExecutorScheduleWork ==
    /\ ExecutorRunning
    /\ \E c \in Callbacks : cbStates[c].queue = "unmade"
    /\ LET c == NextCallback
           enqueued == enqueueCallbackState_inlock(c, "temp", "work", 0)
       IN cbStates' =
              IF enqueued[c].queue = "refused" THEN enqueued
              ELSE [enqueued EXCEPT ![c] =
                       [@ EXCEPT !.queue = "pool", !.task = "todo", !.moved = @ + 1]]
    /\ UNCHANGED <<_state, _pool, eventStates, epc, execAborted>>

\* scheduleWorkAt with a time in the future, up to lk.unlock().
ExecutorScheduleWorkAt ==
    /\ ExecutorRunning
    /\ \E c \in Callbacks : cbStates[c].queue = "unmade"
    /\ LET c == NextCallback
           enqueued == enqueueCallbackState_inlock(c, "sleepers", "timer", 0)
       IN cbStates' = [enqueued EXCEPT ![c].net =
                          IF enqueued[c].queue = "refused" THEN "none" ELSE "unset"]
    /\ UNCHANGED <<_state, _pool, eventStates, epc, execAborted>>

\* cancel, its first critical section: nothing in shutdown; otherwise the
\* flag is set, and for a timer operation the lock is released around
\* cancelAlarm.
CancelLocked(c) ==
    IF _inShutdown_inlock THEN cbStates[c]
    ELSE [cbStates[c] EXCEPT !.canceled = TRUE,
                             !.cancelpc = IF cbStates[c].kind = "timer"
                                              THEN "unlocked" ELSE @]

\* scheduleWorkAt, _net->setAlarm: the alarm is set, or setAlarm fails and
\* scheduleWorkAt cancels the callback.
ExecutorSetAlarm(c, ok) ==
    /\ ExecutorRunning
    /\ cbStates[c].net = "unset"
    /\ cbStates' = [cbStates EXCEPT ![c] =
           IF ok THEN [@ EXCEPT !.net = "armed"]
                 ELSE [CancelLocked(c) EXCEPT !.net = "none"]]
    /\ UNCHANGED <<_state, _pool, eventStates, epc, execAborted>>

\* The callback given to setAlarm runs with an OK status: a callback that
\* is canceled stays where it is, any other leaves _sleepersQueue for the
\* pool.
AlarmFires(c) ==
    /\ ExecutorRunning
    /\ cbStates[c].kind = "timer"
    /\ cbStates[c].net = "armed"
    /\ cbStates' =
           [d \in Callbacks |->
               [(IF cbStates[c].canceled THEN cbStates[d] ELSE SpliceIntoPool({c}, d))
                   EXCEPT !.net = IF d = c THEN "spent" ELSE @]]
    /\ UNCHANGED <<_state, _pool, eventStates, epc, execAborted>>

\* scheduleRemoteCommandOnAny: the callback state enters
\* _networkInProgressQueue and startCommand is called, which may fail.
ExecutorScheduleRemoteCommand(ok) ==
    /\ ExecutorRunning
    /\ \E c \in Callbacks : cbStates[c].queue = "unmade"
    /\ LET c == NextCallback
           enqueued == enqueueCallbackState_inlock(c, "network", "network", 0)
       IN cbStates' = [enqueued EXCEPT ![c].net =
                          IF enqueued[c].queue # "refused" /\ ok THEN "armed" ELSE "none"]
    /\ UNCHANGED <<_state, _pool, eventStates, epc, execAborted>>

\* The callback given to startCommand runs with the response: nothing in
\* shutdown, otherwise the callback state leaves _networkInProgressQueue
\* for the pool.
ResponseArrives(c) ==
    /\ ExecutorRunning
    /\ cbStates[c].kind = "network"
    /\ cbStates[c].net = "armed"
    /\ cbStates' =
           [d \in Callbacks |->
               [(IF _inShutdown_inlock THEN cbStates[d] ELSE SpliceIntoPool({c}, d))
                   EXCEPT !.net = IF d = c THEN "spent" ELSE @]]
    /\ UNCHANGED <<_state, _pool, eventStates, epc, execAborted>>

\* makeEvent
ExecutorMakeEvent ==
    /\ ExecutorRunning
    /\ \E e \in Events : eventStates[e] = "unmade"
    /\ eventStates' = [eventStates EXCEPT ![NextEvent] =
                          IF _inShutdown_inlock THEN "refused" ELSE "unsignaled"]
    /\ UNCHANGED <<_state, _pool, cbStates, epc, execAborted>>

\* onEvent: BadValue for a handle that is not valid (e = 0); otherwise the
\* callback state is enqueued in the waiters of the event, and handed to
\* the pool at once if the event is signaled.
ExecutorOnEvent(e) ==
    /\ ExecutorRunning
    /\ \E c \in Callbacks : cbStates[c].queue = "unmade"
    /\ e # 0 => eventStates[e] \in {"unsignaled", "signaled"}
    /\ LET c == NextCallback
           enqueued == enqueueCallbackState_inlock(c, "waiters", "event", e)
       IN cbStates' =
              IF e = 0
                  THEN [cbStates EXCEPT ![c] = [@ EXCEPT !.queue = "badValue",
                                                         !.kind = "event"]]
              ELSE IF enqueued[c].queue = "waiters" /\ eventStates[e] = "signaled"
                  THEN [enqueued EXCEPT ![c] =
                           [@ EXCEPT !.queue = "pool", !.task = "todo",
                                     !.moved = @ + 1]]
              ELSE enqueued
    /\ UNCHANGED <<_state, _pool, eventStates, epc, execAborted>>

\* signalEvent and signalEvent_inlock
ExecutorSignalEvent(e) ==
    /\ ExecutorRunning
    /\ eventStates[e] \in {"unsignaled", "signaled"}
    /\ IF eventStates[e] = "signaled"
       THEN ExecutorAbort("signalEvent_inlock: invariant(!isSignaledFlag)")
       ELSE /\ eventStates' = [eventStates EXCEPT ![e] = "signaled"]
            /\ cbStates' = scheduleIntoPool_inlock(WaitersOf(e))
            /\ UNCHANGED <<_state, _pool, epc, execAborted>>

\* The callbacks a caller holds a handle of.
HasHandle(c) == cbStates[c].queue \notin {"unmade", "refused", "badValue"}

\* cancel, up to its return or to the unlock before cancelAlarm.
ExecutorCancel(c) ==
    /\ ExecutorRunning
    /\ HasHandle(c)
    /\ cbStates[c].cancelpc = "none"
    /\ cbStates[c].net # "unset"
    /\ cbStates' = [cbStates EXCEPT ![c] = CancelLocked(c)]
    /\ UNCHANGED <<_state, _pool, eventStates, epc, execAborted>>

\* cancel of a timer operation after cancelAlarm: under the lock again, a
\* callback that is still in _sleepersQueue is handed to the pool.
ExecutorCancelRelock(c) ==
    /\ ExecutorRunning
    /\ cbStates[c].cancelpc = "unlocked"
    /\ cbStates' =
           [d \in Callbacks |->
               [(IF cbStates[c].queue = "sleepers"
                     THEN SpliceIntoPool({c}, d) ELSE cbStates[d])
                   EXCEPT !.cancelpc = IF d = c THEN "none" ELSE @]]
    /\ UNCHANGED <<_state, _pool, eventStates, epc, execAborted>>

\* join: the thread waits on _stateChange.
ExecutorJoinCall(t) ==
    /\ ExecutorRunning
    /\ epc[t] = "idle"
    /\ epc' = [epc EXCEPT ![t] = "j_waiting"]
    /\ UNCHANGED <<_state, _pool, cbStates, eventStates, execAborted>>

ExecutorJoinPredicate_AnyQueue == _state \in {"joinRequired", "shutdownComplete"}

\* _join, the predicate of the wait on _stateChange.
ExecutorJoinPredicate ==
    InQueue("pool") = {} /\ _state \in {"joinRequired", "shutdownComplete"}

\* _join after the wait: the return in shutdownComplete, or
\* _setState_inlock(joining) and lk.unlock().
ExecutorJoinWake(t) ==
    /\ ExecutorRunning
    /\ epc[t] = "j_waiting"
    /\ ExecutorJoinPredicate
    /\ IF _state = "shutdownComplete"
       THEN /\ epc' = [epc EXCEPT ![t] = "j_returned"]
            /\ UNCHANGED <<_state, _pool, cbStates, eventStates, execAborted>>
       ELSE IF _state # "joinRequired"
       THEN ExecutorAbort("_join: invariant(_state == joinRequired)")
       ELSE /\ _state' = "joining"
            /\ epc' = [epc EXCEPT ![t] = "j_pool"]
            /\ UNCHANGED <<_pool, cbStates, eventStates, execAborted>>

\* _join: _pool->shutdown() and _pool->join(), which returns when the pool
\* has no task left.
ExecutorJoinPool(t) ==
    /\ ExecutorRunning
    /\ epc[t] = "j_pool"
    /\ \A c \in Callbacks : cbStates[c].task \notin {"queued", "running"}
    /\ _pool' = "shutdown"
    /\ epc' = [epc EXCEPT ![t] = "j_events"]
    /\ UNCHANGED <<_state, cbStates, eventStates, execAborted>>

\* _join, one turn of the loop over _unsignaledEvents.
ExecutorJoinSignal(t) ==
    /\ ExecutorRunning
    /\ epc[t] = "j_events"
    /\ UnsignaledEvents # {}
    /\ LET e == CHOOSE x \in UnsignaledEvents : \A y \in UnsignaledEvents : x <= y
       IN IF WaitersOf(e) # {}
          THEN ExecutorAbort("_join: invariant(eventState->waiters.empty())")
          ELSE /\ eventStates' = [eventStates EXCEPT ![e] = "signaled"]
               /\ UNCHANGED <<_state, _pool, cbStates, epc, execAborted>>

\* _join, the end of the loop: lk.unlock() and _net->shutdown().
ExecutorJoinNetShutdown(t) ==
    /\ ExecutorRunning
    /\ epc[t] = "j_events"
    /\ UnsignaledEvents = {}
    /\ epc' = [epc EXCEPT ![t] = "j_final"]
    /\ UNCHANGED <<_state, _pool, cbStates, eventStates, execAborted>>

\* _join, under the lock again: the four invariants and
\* _setState_inlock(shutdownComplete).
ExecutorJoinFinish(t) ==
    /\ ExecutorRunning
    /\ epc[t] = "j_final"
    /\ IF InQueue("pool") # {}
       THEN ExecutorAbort("_join: invariant(_poolInProgressQueue.empty())")
       ELSE IF InQueue("network") # {}
       THEN ExecutorAbort("_join: invariant(_networkInProgressQueue.empty())")
       ELSE IF InQueue("sleepers") # {}
       THEN ExecutorAbort("_join: invariant(_sleepersQueue.empty())")
       ELSE IF UnsignaledEvents # {}
       THEN ExecutorAbort("_join: invariant(_unsignaledEvents.empty())")
       ELSE /\ _state' = "shutdownComplete"
            /\ epc' = [epc EXCEPT ![t] = "j_returned"]
            /\ UNCHANGED <<_pool, cbStates, eventStates, execAborted>>

\* The caller goes on after join returned.
ExecutorJoinReturn(t) ==
    /\ ExecutorRunning
    /\ epc[t] = "j_returned"
    /\ epc' = [epc EXCEPT ![t] = "idle"]
    /\ UNCHANGED <<_state, _pool, cbStates, eventStates, execAborted>>

ExecutorNext ==
    \/ ExecutorStartup
    \/ ExecutorShutdown
    \/ \E c \in Callbacks : PoolSchedule(c)
    \/ \E c \in Callbacks : RunCallbackStart(c)
    \/ \E c \in Callbacks : RunCallbackFinish(c)
    \/ ExecutorScheduleWork
    \/ ExecutorScheduleWorkAt
    \/ \E c \in Callbacks, ok \in BOOLEAN : ExecutorSetAlarm(c, ok)
    \/ \E c \in Callbacks : AlarmFires(c)
    \/ \E ok \in BOOLEAN : ExecutorScheduleRemoteCommand(ok)
    \/ \E c \in Callbacks : ResponseArrives(c)
    \/ ExecutorMakeEvent
    \/ \E e \in Events \cup {0} : ExecutorOnEvent(e)
    \/ \E e \in Events : ExecutorSignalEvent(e)
    \/ \E c \in Callbacks : ExecutorCancel(c)
    \/ \E c \in Callbacks : ExecutorCancelRelock(c)
    \/ \E t \in ExecThreads : ExecutorJoinCall(t)
    \/ \E t \in ExecThreads : ExecutorJoinWake(t)
    \/ \E t \in ExecThreads : ExecutorJoinPool(t)
    \/ \E t \in ExecThreads : ExecutorJoinSignal(t)
    \/ \E t \in ExecThreads : ExecutorJoinNetShutdown(t)
    \/ \E t \in ExecThreads : ExecutorJoinFinish(t)
    \/ \E t \in ExecThreads : ExecutorJoinReturn(t)

SpecExecutor == Init /\ [][ExecutorNext]_vars

(***************************************************************************)
(* Properties of the catalog.                                              *)
(***************************************************************************)
InsertInvariantFailure == "insert: invariant(find(txnNumber) == end())"
GetLatestInvariantFailure == "getLatestOnSession: invariant(!coordinatorsForSession.empty())"

Gated(c) == c.op \in {"get", "getLatestOnSession"} \/ (c.op = "insert" /\ ~c.forStepUp)

\* The coordinator registered under a key, by the history of stores and removals.
RegisteredUnder(lsid, txnNumber) ==
    {c \in Coordinators : registeredAt[c] = {<<lsid, txnNumber>>}}
RegisteredOn(lsid) ==
    {txnNumber \in TxnNumbers : RegisteredUnder(lsid, txnNumber) # {}}

\* Thread t returns (or throws) in this step.
Returns(t) == pc[t] # "done" /\ pc'[t] = "done"

\* C1: whenever the catalog mutex is free no session maps to an empty inner
\* map, and the invariant of getLatestOnSession never fails.
C1_NoEmptySession ==
    /\ _mutex = NoThread =>
          \A lsid \in DOMAIN _coordinatorsBySession :
              DOMAIN _coordinatorsBySession[lsid] # {}
    /\ aborted # GetLatestInvariantFailure

\* _remove has erased the last transaction of a session and still holds the
\* mutex: the empty inner map exists, unobservable.
C1_Witness ==
    \E w \in Workers :
        /\ wpc[w] = "r_erased" /\ _mutex = w
        /\ \E lsid \in DOMAIN _coordinatorsBySession :
               DOMAIN _coordinatorsBySession[lsid] = {}

\* C2: a get(s, t) that passes the gate returns the coordinator stored under
\* (s, t) whose removal has not run, and null when there is none.
C2_GetReturnsInserted ==
    ~ENABLED (CatalogNext /\ ~(
       \A t \in Clients :
          (Returns(t) /\ call'[t].op = "get" /\ result'[t].status = StatusOK) =>
              LET live == RegisteredUnder(call'[t].lsid, call'[t].txnNumber)
              IN /\ Cardinality(live) <= 1
                 /\ live = {} => result'[t].coordinator = NullCoordinator
                 /\ live # {} => result'[t].coordinator \in live))

\* A get has returned a coordinator whose insert has not returned yet.
C2_Witness ==
    \E t \in Clients, u \in Clients :
        /\ pc[t] = "done" /\ call[t].op = "get"
        /\ result[t].coordinator # NullCoordinator
        /\ pc[u] = "i_unlocked" /\ call[u].coordinator = result[t].coordinator

\* C3: while the step-up status is unset every gated call is asleep in the
\* wait, unless its operation context was interrupted.
C3_StepUpGate ==
    _stepUpCompletionStatus = Unset =>
        \A t \in Clients :
            Gated(call[t]) =>
                \/ pc[t] = "blocked"
                \/ pc[t] = "done" /\ result[t].status = Interrupted

\* A gated call sleeps while an insert for step-up has stored its coordinator.
C3_Witness ==
    /\ _stepUpCompletionStatus = Unset
    /\ \E t \in Clients : pc[t] = "blocked" /\ call[t].op = "insert"
    /\ \E t \in Clients : pc[t] = "blocked" /\ call[t].op = "get"
    /\ _coordinatorsBySession # EmptyMap

\* C4 as stated: once step-up has failed with f, every gated call that
\* returns fails with f.
C4_Original ==
    [][\A t \in Clients :
          (Returns(t) /\ Gated(call'[t])
              /\ _stepUpCompletionStatus \in FailureStatuses) =>
                 result'[t].status = _stepUpCompletionStatus]_vars

\* C4 amended: once step-up has failed with f, every gated call that returns
\* fails with f, or with the interruption of its operation context if that
\* interrupted it while it was asleep in the wait; it leaves the map as it
\* is, and the coordinator of a failed insert is neither stored nor given a
\* continuation.
C4_FailureReplay ==
    ~ENABLED (CatalogNext /\ ~(
       \A t \in Clients :
          (Returns(t) /\ Gated(call'[t])
              /\ _stepUpCompletionStatus \in FailureStatuses) =>
                 /\ \/ result'[t].status = _stepUpCompletionStatus
                    \/ result'[t].status = Interrupted /\ pc[t] = "blocked"
                 /\ _coordinatorsBySession' = _coordinatorsBySession
                 /\ call'[t].op = "insert" =>
                       /\ registeredAt'[call'[t].coordinator] = {}
                       /\ continuation'[call'[t].coordinator] = {}
                       /\ \A task \in tasks' :
                              task.coordinator # call'[t].coordinator))

\* After a failed step-up an insert that was asleep and a get issued later
\* have both failed with the step-up failure.
C4_Witness ==
    /\ _stepUpCompletionStatus \in FailureStatuses
    /\ \E t \in Clients, u \in Clients :
          /\ pc[t] = "done" /\ call[t].op = "insert" /\ ~call[t].forStepUp
          /\ result[t].status = _stepUpCompletionStatus
          /\ pc[u] = "done" /\ call[u].op = "get"
          /\ result[u].status = _stepUpCompletionStatus

\* C5: when onStepDown returns it has invoked the cancel hook exactly once on
\* every coordinator that was registered when it locked the mutex, and on no
\* other; before that it has invoked it at most once on each.
C5_StepDownFanOut ==
    \A t \in Clients :
        call[t].op = "onStepDown" =>
            /\ \A c \in Coordinators :
                  sdCalls[t][c] <= (IF c \in sdExpected[t] THEN 1 ELSE 0)
            /\ pc[t] = "done" => \A c \in sdExpected[t] : sdCalls[t][c] = 1

\* onStepDown has returned after cancelling two coordinators while step-up
\* was not complete.
C5_Witness ==
    \E t \in Clients :
        /\ pc[t] = "done" /\ call[t].op = "onStepDown"
        /\ _stepUpCompletionStatus = Unset
        /\ \E c \in sdExpected[t], d \in sdExpected[t] : c # d

\* C6: onStepDown calls the hooks without the catalog mutex, so that a hook
\* that calls back into the catalog is only ever kept waiting by another
\* thread; and whoever holds the mutex can take its next step.
C6_HooksOutsideLock ==
    /\ \A t \in Clients :
          /\ pc[t] = "sd_cancel" => _mutex # t
          /\ (pc[t] = "sd_cancel" /\ coordinatorsToCancel[t] # <<>>
                 /\ _mutex \in {NoThread, t}) => ENABLED StepDownCancelReentrant(t)
          /\ _mutex = t => ENABLED ClientStep(t)
    /\ \A w \in Workers : _mutex = w => ENABLED WorkerStep(w)

\* onStepDown is about to call a hook while an insert is in its critical
\* section.
C6_Witness ==
    \E t \in Clients, u \in Clients :
        /\ pc[t] = "sd_cancel" /\ coordinatorsToCancel[t] # <<>>
        /\ pc[u] = "i_indexed" /\ _mutex = u

InMap(c) ==
    \E lsid \in DOMAIN _coordinatorsBySession :
        \E txnNumber \in DOMAIN _coordinatorsBySession[lsid] :
            _coordinatorsBySession[lsid][txnNumber] = c

BeingRemoved(c) == \E w \in Workers : \E task \in wtask[w] : task.coordinator = c

\* C7: a coordinator that is in the map and whose completion future is
\* resolved is eventually out of the map with its _remove finished, and then
\* no session is left with an empty inner map (or the process was terminated
\* by a failed invariant of another call).
C7_EventualRemoval ==
    \A c \in Coordinators :
        (InMap(c) /\ completion[c] # "pending") ~>
            \/ /\ ~InMap(c)
               /\ ~BeingRemoved(c)
               /\ _mutex = NoThread
               /\ \A lsid \in DOMAIN _coordinatorsBySession :
                      DOMAIN _coordinatorsBySession[lsid] # {}
            \/ aborted # None

\* The removal of a coordinator completed with an error, and of another
\* completed with success, are queued on the executor while both are in the map.
C7_Witness ==
    \E a \in tasks, b \in tasks :
        /\ a.status = "ok" /\ b.status = "error"
        /\ InMap(a.coordinator) /\ InMap(b.coordinator)
        /\ a.lsid = b.lsid

(***************************************************************************)
(* Properties of the schedulers.                                           *)
(***************************************************************************)

ChildrenOf(p) == {_childSchedulers[p][i] : i \in DOMAIN _childSchedulers[p]}

\* A thread makes the first transition of c by calling shutdown on c itself.
DirectShutdown(c) ==
    \E t \in SchedThreads :
        spc[t] = "idle" /\ spc'[t] = "cascading" /\ scall'[t].node = c

\* C11: whenever a parent's shutdown status is set and no thread is inside a
\* critical section of the parent, every child linked in its list has a
\* shutdown status too; a child is born with the status of its parent (shut
\* down with the parent's reason when the parent is shut down), and a node
\* that is shut down takes the status of its parent unless shutdown was
\* called on the node itself.
C11_NoLiveChildUnderDeadParent ==
    /\   (\A p \in Nodes :
            (nodeMutex[p] = NoThread /\ _shutdownStatus[p] # StatusOK) =>
                \A c \in ChildrenOf(p) : _shutdownStatus[c] # StatusOK)
    /\ ~ENABLED (SchedulerNext /\ ~(
          \A c \in Nodes :
            /\ (nodeState[c] = "unborn" /\ nodeState'[c] = "alive") =>
                   /\ \E i \in DOMAIN _childSchedulers'[_parent'[c]] :
                          _childSchedulers'[_parent'[c]][i] = c
                   /\ _shutdownStatus'[c] = _shutdownStatus[_parent'[c]]
            /\ (nodeState[c] # "unborn" /\ _shutdownStatus[c] = StatusOK
                    /\ _shutdownStatus'[c] # StatusOK) =>
                   \/ DirectShutdown(c)
                   \/ /\ _parent[c] # NoNode
                      /\ _shutdownStatus'[c] = _shutdownStatus[_parent[c]]))

\* C11 witness: a parent that is shut down, with no thread in its critical
\* sections, has a child with its own reason and a child that was shut down
\* with another reason.
C11_Witness ==
    \E p \in Nodes :
        /\ nodeMutex[p] = NoThread /\ _shutdownStatus[p] # StatusOK
        /\ \E c \in ChildrenOf(p) : _shutdownStatus[c] = _shutdownStatus[p]
        /\ \E c \in ChildrenOf(p) :
               _shutdownStatus[c] \notin {StatusOK, _shutdownStatus[p]}

\* A thread starts a shutdown call on n.
ShutdownCalled(t, n) == spc[t] = "idle" /\ spc'[t] # "idle" /\ scall'[t].node = n

\* C12: a shutdown status that is set never changes; the first shutdown of a
\* node records the status it was called with; a later call returns at once
\* and a cascade passes over a child that is shut down, in both cases
\* without killing a context, cancelling a handle or visiting a child.
C12_ShutdownSticky ==
    ~ENABLED (SchedulerNext /\ ~(
       schedAborted' = None =>
        /\ \A n \in Nodes :
               _shutdownStatus[n] # StatusOK => _shutdownStatus'[n] = _shutdownStatus[n]
        /\ \A t \in SchedThreads, n \in Nodes :
               ShutdownCalled(t, n) =>
                   IF _shutdownStatus[n] = StatusOK
                   THEN _shutdownStatus'[n] = scall'[t].reason
                   ELSE /\ spc'[t] = "returned" /\ frames'[t] = <<>>
                        /\ UNCHANGED <<_shutdownStatus, killed, cancelRequested,
                                       nodeMutex>>
        /\ \A t \in SchedThreads :
               (/\ spc[t] = "cascading" /\ frames'[t] # frames[t]
                /\ frames[t][Len(frames[t])].todo # <<>>
                /\ _shutdownStatus[Head(frames[t][Len(frames[t])].todo)] # StatusOK) =>
                   /\ Len(frames'[t]) = Len(frames[t])
                   /\ UNCHANGED <<_shutdownStatus, killed, cancelRequested, nodeMutex>>))

\* C12 witness: a shutdown call with another reason has returned from a node
\* that was shut down before, and the node holds a killed context.
C12_Witness ==
    \E t \in SchedThreads :
        /\ spc[t] = "returned" /\ ~scall[t].first
        /\ _shutdownStatus[scall[t].node] \notin {StatusOK, scall[t].reason}
        /\ \E x \in _activeOpContexts[scall[t].node] : killed[x]

\* A thread calls join on n.
JoinCalled(t, n) ==
    /\ spc[t] = "idle"
    /\ spc'[t] \in {"join_asleep", "join_notified", "join_returned"}
    /\ scall'[t].node = n

\* join of thread t returns from n.
JoinReturns(t, n) ==
    spc[t] # "join_returned" /\ spc'[t] = "join_returned" /\ scall'[t].node = n

\* C13: join returns only at an instant where it holds the lock of the node
\* and the node's contexts, handles and list of children are all empty; a
\* child that is still linked keeps it blocked.
C13_JoinSafety ==
    ~ENABLED (SchedulerJoinNext /\ ~(
       \A t \in SchedThreads, n \in Nodes :
          JoinReturns(t, n) => /\ nodeMutex[n] = NoThread
                               /\ _quiesced(n)
                               /\ \A c \in Nodes : _parent[c] # n))

\* C13 witness: join has returned from the root after work was scheduled, a
\* remote command was sent and every child that can exist was made.
C13_Witness ==
    \E t \in SchedThreads :
        /\ spc[t] = "join_returned" /\ scall[t].node = 1
        /\ numContexts >= 1 /\ numHandles >= 1 /\ numNodes = MaxNodes

\* C14: join called on a node that is quiescent returns at once, and no
\* join stays blocked for ever on a node that is quiescent: when the last
\* unit of work has finished, the join returns.
C14_JoinLiveness ==
    /\ [][\A t \in SchedThreads, n \in Nodes :
            (JoinCalled(t, n) /\ _quiesced(n)) => spc'[t] = "join_returned"]_vars
    /\ \A t \in SchedThreads :
           []<>(~(JoinPending(t) /\ _quiesced(scall[t].node)))

\* C14 witness: join has returned from a root that never had a child, after
\* every unit of work that can be scheduled was scheduled and has finished.
C14_Witness ==
    \E t \in SchedThreads :
        /\ spc[t] = "join_returned" /\ scall[t].node = 1
        /\ numContexts = MaxContexts /\ numNodes = 1

DestructorInvariantFailure == "~AsyncWorkScheduler: invariant(_quiesced(lg))"

\* The destructor of n, run now, would trip its invariant.
DestructorTrips(n) == ENABLED (DestructorCheck(n) /\ schedAborted' # None)

\* The destructor of n, run now, would pass its invariant.
DestructorPasses(n) == ENABLED (DestructorCheck(n) /\ schedAborted' = None)

\* C16: the destructor of a node trips invariant(_quiesced) exactly when the
\* node has a context, a handle or a linked child; it does not trip at the
\* instant join returns; and a node is destroyed only when none of its
\* children is left.
C16_DestructionPrecondition ==
    /\   (\A n \in Nodes :
            ENABLED DestructorCheck(n) =>
                /\ DestructorTrips(n) <=>
                       (\/ _activeOpContexts[n] # {} \/ _activeHandles[n] # {}
                        \/ _childSchedulers[n] # <<>>)
                /\ DestructorPasses(n) <=> ~DestructorTrips(n))
    /\ ~ENABLED (SchedulerJoinNext /\ ~(
          \A n \in Nodes :
            /\ (\E t \in SchedThreads : JoinReturns(t, n)) =>
                   (nodeState[n] = "alive" /\ ~DestructorTrips(n))
            /\ (nodeState[n] = "alive" /\ nodeState'[n] \in {"destroying", "destroyed"}) =>
                   \A c \in Nodes : _parent[c] # n))

\* C16 witness: a destructor has tripped the invariant.
C16_Witness == schedAborted = DestructorInvariantFailure

\* Every node a running shutdown holds or is still to visit.
NodesInCascade ==
    UNION {UNION {{frames[t][i].node} \cup
                      {frames[t][i].todo[j] : j \in DOMAIN frames[t][i].todo} :
                  i \in DOMAIN frames[t]} : t \in SchedThreads}

\* C17: the destructor of a child takes the parent's lock and removes that
\* child, and nothing else, from the parent's list; no shutdown reaches a
\* node that is destroyed; and when a child of a node that a join is blocked
\* on is being destroyed, the child is unlinked and the join returns unless
\* the node is not quiescent.
C17_ChildDestruction ==
    /\ [][\A c \in Nodes :
            /\ (nodeState[c] = "destroying" /\ nodeState'[c] = "destroyed") =>
                   /\ nodeMutex[_parent[c]] = NoThread
                   /\ _childSchedulers' =
                          [_childSchedulers EXCEPT ![_parent[c]] = RemoveFromSeq(@, c)]
                   /\ Len(_childSchedulers'[_parent[c]]) =
                          Len(_childSchedulers[_parent[c]]) - 1
            /\ (nodeState[c] = "destroyed" /\ schedAborted' = None) =>
                   _shutdownStatus'[c] = _shutdownStatus[c]]_vars
    /\ [](\A c \in Nodes : nodeState[c] = "destroyed" =>
              /\ c \notin NodesInCascade
              /\ \A p \in Nodes : c \notin ChildrenOf(p))
    /\ \A t \in JoinThreads, c \in Nodes \ {1} :
           (nodeState[c] = "destroying" /\ JoinPending(t) /\ scall[t].node = _parent[c])
               ~> \/ /\ nodeState[c] = "destroyed"
                     /\ ~JoinPending(t) \/ ~_quiesced(scall[t].node)
                  \/ schedAborted # None

\* C17 witness: join has returned from the root, which never had work of its
\* own, after its child was destroyed.
C17_Witness ==
    \E t \in SchedThreads :
        /\ spc[t] = "join_returned" /\ scall[t].node = 1
        /\ nodeState[2] = "destroyed" /\ numNodes = 2
        /\ numContexts = 0 /\ numHandles = 0

\* C15 as stated: in the scenario (the root is shut down, its own sets are
\* empty, its children are alive and idle) a join on the root returns while
\* the children are not destroyed.
C15_Original ==
    \A t \in JoinThreads :
        (/\ JoinPending(t) /\ scall[t].node = 1
         /\ _shutdownStatus[1] # StatusOK
         /\ _activeOpContexts[1] = {} /\ _activeHandles[1] = {}
         /\ ChildrenOf(1) # {}
         /\ \A c \in ChildrenOf(1) : nodeState[c] = "alive" /\ _quiesced(c))
            ~> \/ spc[t] = "join_returned"
               \/ \E c \in Nodes \ {1} : nodeState[c] \in {"destroying", "destroyed"}
               \/ schedAborted # None

\* C15, amended: when the first shutdown(reason) of a node has returned,
\* every context in its subtree is killed and its node carries the reason,
\* so that the interrupted work fails with it; a join returns from a node
\* only when no child is linked, so the root's join returns only after the
\* child was destroyed; a join on a node that is shut down and quiescent
\* returns unless a child is linked to the node; and a node that is quiescent
\* when its join has returned, with no other thread still inside a join on
\* it, is destroyed without tripping the invariant.
C15_ShutdownScenario ==
    /\ [](\A t \in ShutdownThreads :
            (spc[t] = "returned" /\ scall[t].first) =>
                \A d \in SubtreeOf(scall[t].node) :
                    /\ _shutdownStatus[d] = scall[t].reason
                    /\ \A x \in _activeOpContexts[d] : killed[x])
    /\ [](\A t \in JoinThreads :
            (/\ spc[t] = "join_returned" /\ _quiesced(scall[t].node)
             /\ nodeState[scall[t].node] = "alive"
             /\ nodeMutex[scall[t].node] = NoThread
             /\ \A u \in SchedThreads :
                    ~(JoinPending(u) /\ scall[u].node = scall[t].node)) =>
                DestructorPasses(scall[t].node))
    /\ [][\A t \in JoinThreads, n \in Nodes :
            JoinReturns(t, n) => ChildrenOf(n) = {}]_vars
    /\ \A t \in JoinThreads :
           (/\ JoinPending(t) /\ _shutdownStatus[scall[t].node] # StatusOK
            /\ _quiesced(scall[t].node))
               ~> \/ spc[t] = "join_returned"
                  \/ JoinPending(t) /\ ChildrenOf(scall[t].node) # {}
                  \/ schedAborted # None

\* C15 witness: the root was shut down while its child held work; the work
\* has finished, the child was destroyed, and the root's join has returned.
C15_Witness ==
    \E t \in JoinThreads :
        /\ spc[t] = "join_returned" /\ scall[t].node = 1
        /\ _shutdownStatus[1] # StatusOK /\ _shutdownStatus[2] = _shutdownStatus[1]
        /\ nodeState[2] = "destroyed"
        /\ numContexts >= 1 /\ numNodes = 2 /\ numHandles = 0

(***************************************************************************)
(* Properties of scheduleRemoteCommand.                                    *)
(***************************************************************************)

\* The callback of command k runs with the given transport result.
CallbackRuns(k, transport) ==
    /\ cmd[k].pc = "inflight"
    /\ cmd'[k].pc = "called_back"
    /\ cmd'[k].transport = transport

\* C18: when the callback of a remote command runs with the transport result
\* CallbackCanceled, the future fails with the node's shutdown status if one
\* is set at that time (by a shutdown of the node or by the cascade of an
\* ancestor) and with CallbackCanceled itself if the status is still OK; the
\* result the callback set is the one the call ends with.
C18_ShutdownReasonReporting ==
    ~ENABLED (RemoteNext /\ ~(
       \A k \in Commands :
          /\ CallbackRuns(k, CallbackCanceled) =>
                 cmd'[k].result = IF _shutdownStatus[cmd[k].node] # StatusOK
                                      THEN _shutdownStatus[cmd[k].node]
                                      ELSE CallbackCanceled
          /\ (cmd[k].pc = "called_back" /\ schedAborted' = None) =>
                 cmd'[k].result = cmd[k].result))

\* C18 witness: a command on a child was cancelled by the cascade of the
\* root's shutdown, its callback has run and its future carries the root's
\* reason.
C18_Witness ==
    \E k \in Commands :
        /\ cmd[k].pc = "done"
        /\ cmd[k].transport = CallbackCanceled
        /\ cmd[k].node # 1
        /\ _parent[cmd[k].node] = 1
        /\ cmd[k].result \in ShutdownReasons
        /\ cmd[k].result = _shutdownStatus[1]
        /\ \A t \in SchedThreads : spc[t] = "idle"

\* scheduleRemoteCommand is called for command k.
RemoteCalled(k) == cmd[k].pc = "idle" /\ cmd'[k].pc # "idle"

\* The target of command k is the shard of this process.
TargetsLocalShard(k) == cmd[k].shardId = getLocalShardId(cmd[k].role)

\* C19: the path of a call is decided on entry by comparing shardId with
\* getLocalShardId.  A call for the local shard runs its command through
\* scheduleWork and the entry point of this process and never resolves a
\* host, calls the executor or holds a handle; a call for another shard goes
\* to _targetHostAsync, never through the loopback, and the executor is
\* called only after the host was resolved.
C19_LocalShardShortcut ==
    /\   (\A k \in Commands :
            cmd[k].pc # "idle" =>
                IF TargetsLocalShard(k)
                    THEN /\ cmd[k].pc \in {"loopback", "done"}
                         /\ ~cmd[k].resolved
                         /\ ~cmd[k].issued
                         /\ cmd[k].handle = 0
                    ELSE /\ cmd[k].pc # "loopback"
                         /\ cmd[k].issued => cmd[k].resolved)
    /\ ~ENABLED (RemoteNext /\ ~(
          \A k \in Commands :
            (RemoteCalled(k) /\ _shutdownStatus[cmd'[k].node] = StatusOK) =>
                /\ cmd'[k].pc = IF TargetsLocalShard(k)' THEN "loopback" ELSE "targeting"
                /\ cmd'[k].ctx \in _activeOpContexts'[cmd'[k].node]
                /\ cmd'[k].ctx \notin _activeOpContexts[cmd'[k].node]))

\* C19 witness: on a config server a command for the config shard has run
\* through the loopback and resolved with the response, without a host
\* resolution or a call of the executor.
C19_Witness ==
    \E k \in Commands :
        /\ cmd[k].pc = "done"
        /\ cmd[k].role = "ConfigServer"
        /\ cmd[k].shardId = kConfigServerShardId
        /\ cmd[k].result = StatusOK
        /\ ~cmd[k].resolved /\ ~cmd[k].issued
        /\ numContexts = 1 /\ numHandles = 0

\* Host targeting of command k has failed.
TargetingFailed(k) == cmd[k].targeting \notin {None, "host"}

\* C20: when the shard is not found, no host is found within the wait or the
\* targeting context is killed, the call ends with that error as soon as
\* targeting ends, the executor is never called for the command and no
\* handle is added to the node's set of active handles.
C20_TargetingFailureShortCircuits ==
    /\   (\A k \in Commands :
            TargetingFailed(k) =>
                /\ cmd[k].pc = "done"
                /\ cmd[k].result = cmd[k].targeting
                /\ ~cmd[k].issued
                /\ cmd[k].handle = 0)
    /\ ~ENABLED (RemoteNext /\ ~(
          \A k \in Commands :
            (~TargetingFailed(k) /\ TargetingFailed(k)') =>
                /\ cmd[k].pc = "targeting"
                /\ _activeHandles' = _activeHandles
                /\ numHandles' = numHandles))

\* C20 witness: the targeting context of a command was killed by a shutdown
\* of its node; the call has ended with the shutdown status and no handle
\* was ever made.
C20_Witness ==
    \E k \in Commands :
        /\ cmd[k].pc = "done"
        /\ cmd[k].targeting \in ShutdownReasons
        /\ cmd[k].result = _shutdownStatus[cmd[k].node]
        /\ cmd[k].resolved /\ ~cmd[k].issued
        /\ _activeHandles[cmd[k].node] = {}
        /\ numHandles = 0

\* Command k is in flight: dispatched and its future not yet resolved.
InFlight(k) == cmd[k].pc \in {"loopback", "inflight", "called_back"}

\* The future of command k resolves in this step.
RemoteResolves(k) == InFlight(k) /\ cmd'[k].pc = "done"

CallableExecuting(k) == cmd[k].pc \in {"loopback", "targeting"}

InsertStored(t) ==
    /\ call[t].op = "insert"
    /\ \/ pc[t] = "i_unlocked"
       \/ pc[t] = "done" /\ result[t].status = StatusOK

\* The insert call of thread t has returned normally.
InsertReturned(t) ==
    call[t].op = "insert" /\ pc[t] = "done" /\ result[t].status = StatusOK

\* The _remove of coordinator c has erased it.
Removed(c) == registeredAt[c] = {}

\* C23 as stated: a get(s, t) that starts after insert(s, t, c) has returned
\* finds c, whatever the coordinator's completion and the executor did.
C23_Original ==
    [][\A t \in Clients, u \in Clients :
          (/\ InsertReturned(t)
           /\ pc[u] = "idle" /\ Returns(u) /\ call'[u].op = "get"
           /\ result'[u].status = StatusOK
           /\ call'[u].lsid = call[t].lsid /\ call'[u].txnNumber = call[t].txnNumber) =>
               result'[u].coordinator = call[t].coordinator]_vars

\* C23, amended: from the store, before insert releases the mutex, until its
\* _remove runs, the coordinator is in the map under its key, and it is
\* removed only after its completion resolved; so a get(s, t) that reads the
\* map after insert(s, t, c) has returned finds c, and a getLatestOnSession(s)
\* finds a transaction number of at least t, unless the removal of c has
\* already run.
C23_InsertVisibility ==
    /\   (\A t \in Clients :
            InsertStored(t) =>
                IF Removed(call[t].coordinator)
                    THEN completion[call[t].coordinator] = "consumed"
                    ELSE GetLookup(_coordinatorsBySession, call[t].lsid,
                                   call[t].txnNumber) = call[t].coordinator)
    /\ ~ENABLED (CatalogNext /\ ~(
          \A t \in Clients, u \in Clients :
            (/\ InsertReturned(t) /\ ~Removed(call[t].coordinator)
             /\ Returns(u) /\ result'[u].status = StatusOK
             /\ call'[u].lsid = call[t].lsid) =>
                /\ (call'[u].op = "get" /\ call'[u].txnNumber = call[t].txnNumber) =>
                       result'[u].coordinator = call[t].coordinator
                /\ call'[u].op = "getLatestOnSession" =>
                       /\ result'[u].txnNumber >= call[t].txnNumber
                       /\ result'[u].coordinator # NullCoordinator))

\* C23 witness: an insert has returned and a get of its key, called after
\* that while the coordinator's completion was already resolved and its
\* removal queued, has found the coordinator.
C23_Witness ==
    \E t \in Clients, u \in Clients :
        /\ InsertReturned(t)
        /\ pc[u] = "done" /\ call[u].op = "get"
        /\ call[u].lsid = call[t].lsid /\ call[u].txnNumber = call[t].txnNumber
        /\ result[u].coordinator = call[t].coordinator
        /\ \E task \in tasks : task.coordinator = call[t].coordinator
        /\ numCreated = 1

\* A removal continuation for coordinator c is registered, queued or running.
HasContinuation(c) ==
    \/ continuation[c] # {}
    \/ \E task \in tasks : task.coordinator = c
    \/ BeingRemoved(c)

NumContinuations(c) ==
    Cardinality(continuation[c])
        + Cardinality({task \in tasks : task.coordinator = c})
        + Cardinality({w \in Workers : \E task \in wtask[w] : task.coordinator = c})

\* _remove is invoked for coordinator c in this step.
RemoveInvoked(c) ==
    \E w \in Workers :
        /\ wpc[w] = "idle" /\ wpc'[w] = "r_erased"
        /\ \E task \in wtask'[w] : task.coordinator = c

\* C25: a coordinator has at most one removal continuation, which comes into
\* being only when its insert, having stored it, registers one, and a failed
\* insert registers none; _remove is invoked for it only with the key it was
\* stored under, after its completion resolved, with success or an error,
\* and the invocation uses the continuation up; and a coordinator with a
\* continuation and a resolved completion has its _remove invoked.
C25_ExactlyOnceRemoval ==
    /\ [](\A c \in Coordinators : NumContinuations(c) <= 1)
    /\ [](\A t \in Clients :
            (call[t].op = "insert" /\ pc[t] = "done") =>
                IF result[t].status = StatusOK
                    THEN \/ NumContinuations(call[t].coordinator) = 1
                         \/ Removed(call[t].coordinator)
                    ELSE NumContinuations(call[t].coordinator) = 0)
    /\ [][\A c \in Coordinators :
            /\ (NumContinuations(c) = 0 /\ NumContinuations(c)' > 0) =>
                   \E t \in Clients :
                       /\ call[t].coordinator = c /\ call[t].op = "insert"
                       /\ pc[t] = "i_unlocked" /\ pc'[t] = "done"
                       /\ ~Removed(c)
            /\ RemoveInvoked(c) =>
                   /\ completion[c] = "consumed"
                   /\ \E task \in tasks :
                          /\ task.coordinator = c
                          /\ task.status \in {"ok", "error"}
                          /\ registeredAt[c] = {<<task.lsid, task.txnNumber>>}
                   /\ NumContinuations(c)' = 1
                   /\ continuation'[c] = {}
                   /\ \A task \in tasks' : task.coordinator # c
                   /\ Removed(c)']_vars
    /\ \A c \in Coordinators :
           (NumContinuations(c) = 1 /\ completion[c] # "pending") ~>
               (Removed(c) \/ aborted # None)

\* C25 witness: the _remove of a coordinator that completed with an error
\* has run and finished; nothing of its continuation is left.
C25_Witness ==
    \E t \in Clients :
        /\ InsertReturned(t)
        /\ Removed(call[t].coordinator)
        /\ NumContinuations(call[t].coordinator) = 0
        /\ completion[call[t].coordinator] = "consumed"
        /\ \E u \in Clients : sdCalls[u][call[t].coordinator] = 1
        /\ \A w \in Workers : wpc[w] = "idle"

ExitStepUpInvariantFailure == "exitStepUp: invariant(!_stepUpCompletionStatus)"

\* C26: the step-up status is set only from unset, by an exitStepUp, to the
\* status of that call, and once set it never changes; an exitStepUp called
\* when the status is set, whatever its argument, terminates the process on
\* invariant(!_stepUpCompletionStatus), and one called when it is unset does
\* not.
C26_ExitStepUpOneShot ==
    /\ ~ENABLED (CatalogWriterNext /\ ~(
          aborted' = None =>
             \/ _stepUpCompletionStatus' = _stepUpCompletionStatus
             \/ /\ _stepUpCompletionStatus = Unset
                /\ _stepUpCompletionStatus' \in {StatusOK} \cup FailureStatuses
                /\ _mutex = NoThread /\ _mutex' = NoThread))
    /\ ~ENABLED (CatalogWriterNext /\ ~(
          aborted' = ExitStepUpInvariantFailure =>
             _stepUpCompletionStatus # Unset))
    /\   (\A status \in {StatusOK} \cup FailureStatuses :
            (aborted = None /\ _mutex = NoThread) =>
                /\ (ENABLED (exitStepUp(status) /\ aborted' = ExitStepUpInvariantFailure))
                       <=> _stepUpCompletionStatus # Unset
                /\ (ENABLED (exitStepUp(status) /\ aborted' = None))
                       <=> _stepUpCompletionStatus = Unset)

\* C26 witness: a second exitStepUp has terminated the process.
C26_Witness == aborted = ExitStepUpInvariantFailure

\* Thread t leaves the wait for step-up in this step.
LeavesWait(t) == pc[t] = "blocked" /\ pc'[t] # "blocked" /\ aborted' = None

\* Thread t calls a gated operation in this step.
GatedCallStarts(t) == pc[t] = "idle" /\ pc'[t] # "idle" /\ Gated(call'[t])

\* What a gated call of thread t does once step-up is complete with status:
\* with OK an insert goes on to its store with the mutex held and a read
\* returns its result; with a failure the call throws it.
ObservesStepUp(t, status) ==
    IF status = StatusOK
        THEN IF call'[t].op = "insert"
                 THEN pc'[t] = "i_indexed" /\ _mutex' = t
                 ELSE pc'[t] = "done" /\ result'[t].status = StatusOK
        ELSE pc'[t] = "done" /\ result'[t].status = status

\* C27 as stated: once exitStepUp was called every blocked gated call leaves
\* the wait, no later one blocks, and each of them goes on with the outcome
\* of step-up.
C27_Original ==
    /\ \A t \in Clients :
           (pc[t] = "blocked" /\ _stepUpCompletionStatus # Unset) ~>
               (pc[t] # "blocked" \/ aborted # None)
    /\ [][\A t \in Clients :
            /\ (GatedCallStarts(t) /\ _stepUpCompletionStatus # Unset) =>
                   pc'[t] # "blocked" /\ ObservesStepUp(t, _stepUpCompletionStatus)
            /\ (LeavesWait(t) /\ _stepUpCompletionStatus # Unset) =>
                   ObservesStepUp(t, _stepUpCompletionStatus)]_vars

\* C27, amended: once exitStepUp was called every blocked gated call leaves
\* the wait and no later one blocks; each of them goes on with the outcome
\* of step-up, to its read or write for OK and to the failure otherwise,
\* except a blocked call whose operation context is interrupted before it
\* wakes, which throws the interruption; and no call leaves the wait
\* before exitStepUp other than by an interruption.
C27_ExitStepUpWakesAll ==
    /\ \A t \in Clients :
           (pc[t] = "blocked" /\ _stepUpCompletionStatus # Unset) ~>
               (pc[t] # "blocked" \/ aborted # None)
    /\ [][\A t \in Clients :
            /\ (GatedCallStarts(t) /\ _stepUpCompletionStatus # Unset) =>
                   pc'[t] # "blocked" /\ ObservesStepUp(t, _stepUpCompletionStatus)
            /\ (LeavesWait(t) /\ _stepUpCompletionStatus # Unset) =>
                   \/ ObservesStepUp(t, _stepUpCompletionStatus)
                   \/ pc'[t] = "done" /\ result'[t].status = Interrupted
            /\ (LeavesWait(t) /\ _stepUpCompletionStatus = Unset) =>
                   pc'[t] = "done" /\ result'[t].status = Interrupted]_vars

\* C27 witness: after exitStepUp(OK) an insert that waits for step-up has
\* stored its coordinator and returned, and a get has returned the
\* coordinator.
C27_Witness ==
    \E t \in Clients, u \in Clients :
        /\ _stepUpCompletionStatus = StatusOK
        /\ call[t].op = "insert" /\ ~call[t].forStepUp
        /\ pc[t] = "done" /\ result[t].status = StatusOK
        /\ call[u].op = "get" /\ pc[u] = "done"
        /\ result[u].coordinator = call[t].coordinator
        /\ numCreated = 1

\* The join call of thread t returns in this step.
CatalogJoinReturns(t) == Returns(t) /\ call'[t].op = "join"

\* C28: join returns only in a step in which the catalog has no session at
\* all, with the mutex not held by another thread; a wait of join that ends
\* while a session is left only takes the mutex, logs and sleeps again,
\* which changes nothing in the catalog, and join stays blocked.
C28_CatalogJoinSafety ==
    /\ [][\A t \in Clients :
            CatalogJoinReturns(t) =>
                /\ _coordinatorsBySession = EmptyMap
                /\ _coordinatorsBySession' = EmptyMap
                /\ _mutex = NoThread]_vars
    /\ [][\A t \in Clients :
            /\ (pc[t] = "j_asleep" /\ pc'[t] # "j_asleep" /\ aborted' = None
                   /\ _coordinatorsBySession # EmptyMap) =>
                   /\ pc'[t] = "j_logging"
                   /\ _coordinatorsBySession' = _coordinatorsBySession
                   /\ tasks' = tasks /\ completion' = completion
            /\ (pc[t] = "j_logging" /\ pc'[t] # "j_logging" /\ aborted' = None) =>
                   /\ pc'[t] = "j_asleep"
                   /\ _mutex' = NoThread
                   /\ _coordinatorsBySession' = _coordinatorsBySession
                   /\ tasks' = tasks /\ completion' = completion]_vars
    /\ [](\A t \in Clients :
            pc[t] = "j_logging" => _mutex = t /\ _coordinatorsBySession # EmptyMap)

\* C28 witness: a join that found two coordinators, and logged after a
\* wait, has returned from the catalog they were removed from.
C28_Witness ==
    \E t \in Clients :
        /\ call[t].op = "join" /\ pc[t] = "done"
        /\ _coordinatorsBySession = EmptyMap
        /\ numCreated = 2
        /\ \A c \in Coordinators : completion[c] = "consumed" /\ Removed(c)
        /\ \A w \in Workers : wpc[w] = "idle"

\* C29: if the completion of every registered coordinator is resolved in the
\* end, a join that is blocked returns (inserts end with the coordinators
\* there are, and the executor runs what is queued); and a join called on an
\* empty catalog returns in its first evaluation, without a wait.
C29_CatalogJoinLiveness ==
    /\ (\A c \in Coordinators : <>[](Removed(c) \/ completion[c] # "pending"))
           => \A t \in Clients :
                  (pc[t] \in {"j_asleep", "j_logging"}) ~>
                      (pc[t] = "done" \/ aborted # None)
    /\ [][\A t \in Clients :
            (pc[t] = "idle" /\ call'[t].op = "join"
                 /\ _coordinatorsBySession = EmptyMap) =>
                CatalogJoinReturns(t)]_vars

\* C29 witness: a join has returned from a catalog whose only coordinator
\* completed with an error and was removed, while the insert of that
\* coordinator has not gone on yet.
C29_Witness ==
    \E t \in Clients, u \in Clients :
        /\ call[t].op = "join" /\ pc[t] = "done"
        /\ InsertReturned(u)
        /\ numCreated = 1
        /\ completion[1] = "consumed" /\ Removed(1)
        /\ _coordinatorsBySession = EmptyMap
        /\ \A w \in Workers : wpc[w] = "idle"

\* Thread t takes a step of a shutdown call.
ShutdownSteps(t) ==
    /\ schedAborted' = None
    /\ \/ spc[t] = "idle" /\ spc'[t] \in {"cascading", "returned"}
       \/ spc[t] = "cascading"
             /\ (frames'[t] # frames[t] \/ spc'[t] # spc[t])
       \/ spc[t] = "returned" /\ spc'[t] = "idle"

\* C30: no step of a shutdown call changes a set of active contexts, a set
\* of active handles or a list of children, and none of them changes on a
\* node while a shutdown call holds its lock, so a node that is not
\* quiescent when the call takes its lock is not quiescent when the call
\* releases it; a shutdown call in progress can always take its next step,
\* whatever work is outstanding; and join returns from a node that is shut
\* down only when its sets are empty and none of its children is left
\* undestroyed.
C30_ShutdownDoesNotDrain ==
    /\ ~ENABLED (SchedulerJoinNext /\ ~(
          \A t \in ShutdownThreads :
            ShutdownSteps(t) =>
                /\ _activeOpContexts' = _activeOpContexts
                /\ _activeHandles' = _activeHandles
                /\ _childSchedulers' = _childSchedulers
                /\ \A n \in Nodes : _quiesced(n)' <=> _quiesced(n)))
    /\ ~ENABLED (SchedulerJoinNext /\ ~(
          \A n \in Nodes :
            (nodeMutex[n] \in ShutdownThreads /\ schedAborted' = None) =>
                /\ _activeOpContexts'[n] = _activeOpContexts[n]
                /\ _activeHandles'[n] = _activeHandles[n]
                /\ _childSchedulers'[n] = _childSchedulers[n]))
    /\   (\A t \in ShutdownThreads :
            /\ spc[t] = "cascading" => ENABLED (ShutdownChild(t) \/ ShutdownUnlock(t))
            /\ spc[t] = "returned" => ENABLED ShutdownReturn(t))
    /\ ~ENABLED (SchedulerJoinNext /\ ~(
          \A t \in JoinThreads, n \in Nodes :
            (JoinReturns(t, n) /\ _shutdownStatus[n] # StatusOK) =>
                /\ _activeOpContexts[n] = {} /\ _activeHandles[n] = {}
                /\ \A c \in Nodes :
                       _parent[c] # n /\ (c \in ChildrenOf(n) => nodeState[c] = "destroyed")))

\* C30 witness: the first shutdown of the root has returned; the root still
\* has its context, killed, and its child, and the join on the root is
\* asleep.
C30_Witness ==
    \E t \in ShutdownThreads, u \in JoinThreads :
        /\ spc[t] = "returned" /\ scall[t].first /\ scall[t].node = 1
        /\ \E x \in _activeOpContexts[1] : killed[x] /\ x \in scall[t].contexts
        /\ ChildrenOf(1) # {}
        /\ spc[u] = "join_asleep" /\ scall[u].node = 1
        /\ nodeMutex[1] = NoThread

\* The callback of command k has run with a transport status.
Responded(k) == cmd[k].transport # None

\* C31: on the network path, once the callback of a command has run, the
\* future's outcome is an error exactly when the transport status is not OK;
\* a transport error other than CallbackCanceled is the outcome unchanged;
\* with transport status OK the outcome is the response as a value, also
\* when its command status or its write-concern status is an error; and the
\* future resolves with the outcome the callback chose.
C31_OnlyTransportFailuresAreErrors ==
    /\   (\A k \in Commands :
            Responded(k) =>
                /\ cmd[k].result # StatusOK <=> cmd[k].transport # StatusOK
                /\ cmd[k].transport \notin {StatusOK, CallbackCanceled} =>
                       cmd[k].result = cmd[k].transport
                /\ cmd[k].transport = StatusOK =>
                       cmd[k].data \in ResponseData /\ cmd[k].result = StatusOK)
    /\ ~ENABLED (RemoteNext /\ ~(
          \A k \in Commands :
            (Responded(k) /\ RemoteResolves(k)) => cmd'[k].result = cmd[k].result))

\* C31 witness: a response arrived with transport status OK and a command
\* status that is an error, and the future has resolved with a value.
C31_Witness ==
    \E k \in Commands :
        /\ cmd[k].pc = "done"
        /\ cmd[k].transport = StatusOK
        /\ cmd[k].data = "NotMaster"
        /\ cmd[k].result = StatusOK

\* Command k was called on the network path and its future is unresolved.
NetworkUnresolved(k) ==
    /\ ~cmd[k].self
    /\ cmd[k].pc \in {"targeting", "targeted", "inflight", "called_back"}

\* C32: from the call of scheduleRemoteCommand on the network path until
\* its future resolves the node is not quiescent, and join does not return
\* from the node in between.
C32_RemoteCoveredByJoin ==
    /\ [](\A k \in Commands : NetworkUnresolved(k) => ~_quiesced(cmd[k].node))
    /\ [][\A t \in JoinThreads, k \in Commands :
            (NetworkUnresolved(k) /\ JoinReturns(t, cmd[k].node)) => FALSE]_vars

\* The continuation of command k calls the executor in this step.
IssuedNow(k) == ~cmd[k].issued /\ cmd'[k].issued

\* C33: the executor is called for a command only on a node whose shutdown
\* status is unset, and in the same step an accepted command has its handle
\* in the set of active handles; a command whose host was resolved and for
\* which the executor was never called has failed with the shutdown status
\* of its node; a command with a handle on a node that is shut down has had
\* its cancellation requested; and the step that sets the shutdown status
\* of a node requests the cancellation of every handle in its set.
C33_NoRemoteCommandEscapesShutdown ==
    /\ ~ENABLED (RemoteNext /\ ~(
          \A k \in Commands :
            IssuedNow(k) =>
                /\ _shutdownStatus[cmd[k].node] = StatusOK
                /\ _shutdownStatus'[cmd[k].node] = StatusOK
                /\ cmd'[k].pc = "inflight" =>
                       cmd'[k].handle \in _activeHandles'[cmd[k].node]))
    /\   (\A k \in Commands :
            /\ (cmd[k].pc = "done" /\ cmd[k].targeting = "host" /\ ~cmd[k].issued) =>
                   /\ cmd[k].result = _shutdownStatus[cmd[k].node]
                   /\ cmd[k].result \in ShutdownReasons
            /\ (cmd[k].pc \in {"inflight", "called_back"}
                    /\ _shutdownStatus[cmd[k].node] # StatusOK) =>
                   cancelRequested[cmd[k].handle])
    /\ ~ENABLED (RemoteNext /\ ~(
          \A n \in Nodes :
            (_shutdownStatus[n] = StatusOK /\ _shutdownStatus'[n] # StatusOK) =>
                \A h \in _activeHandles[n] :
                    cancelRequested'[h] /\ h \in _activeHandles'[n]))

\* C33 witness: a command was issued before the shutdown of its node; its
\* handle was in the set when shutdown went through it and its cancellation
\* is requested.
C33_Witness ==
    \E k \in Commands :
        /\ cmd[k].pc = "inflight"
        /\ cmd[k].handle \in _activeHandles[cmd[k].node]
        /\ _shutdownStatus[cmd[k].node] \in ShutdownReasons
        /\ cancelRequested[cmd[k].handle]
        /\ nodeMutex[cmd[k].node] = NoThread

\* The node whose lock the next step of thread t must take while t holds
\* the locks of its shutdown cascade, or NoNode.
WantedBy(t) ==
    IF spc[t] = "cascading" /\ frames[t][Len(frames[t])].todo # <<>>
        THEN Head(frames[t][Len(frames[t])].todo)
        ELSE NoNode

\* The thread that holds the lock thread t waits for, or NoThread.
BlockedBy(t) ==
    IF t = NoThread \/ WantedBy(t) = NoNode THEN NoThread ELSE nodeMutex[WantedBy(t)]

\* The thread reached from t after k steps along the waits.
RECURSIVE WaitChain(_, _)
WaitChain(t, k) == IF k = 0 \/ t = NoThread THEN t ELSE WaitChain(BlockedBy(t), k - 1)

\* C34: the locks a thread holds are those of the frames of its shutdown
\* cascade, each the lock of a child of the frame before; the lock a thread
\* waits for while it holds one is that of a child of the last node it
\* locked; no chain of waits closes into a cycle; and whenever a cascade is
\* under way, some cascade can take its next step.
C34_SchedulerTreeDeadlockFree ==
    /\   (\A t \in SchedThreads :
            /\ {n \in Nodes : nodeMutex[n] = t}
                   = {frames[t][i].node : i \in 1..Len(frames[t])}
            /\ \A i \in 2..Len(frames[t]) :
                   _parent[frames[t][i].node] = frames[t][i - 1].node
            /\ WantedBy(t) # NoNode =>
                   _parent[WantedBy(t)] = frames[t][Len(frames[t])].node
            /\ WaitChain(t, NumSchedThreads) = NoThread)
    /\   ((\E t \in SchedThreads : spc[t] = "cascading") =>
             ENABLED (\E t \in SchedThreads : ShutdownChild(t) \/ ShutdownUnlock(t)))

\* C34 witness: a thread that shuts down the root holds the root's lock and
\* waits for the lock of a child, which a thread that shuts down the child
\* holds.
C34_Witness ==
    \E t \in SchedThreads, u \in SchedThreads :
        /\ t # u
        /\ nodeMutex[1] = t
        /\ WantedBy(t) # NoNode
        /\ BlockedBy(t) = u
        /\ spc[u] = "cascading"
        /\ scall[u].node = WantedBy(t)

\* C35: a step of a shutdown call on node n leaves the shutdown status, the
\* set of active contexts, the set of active handles and the list of
\* children of every node outside the subtree of n unchanged, and kills no
\* context and cancels no handle outside that subtree.
C35_ShutdownStaysInSubtree ==
    ~ENABLED (SchedulerJoinNext /\ ~(
       \A t \in ShutdownThreads :
         ShutdownSteps(t) =>
             LET n == IF spc[t] = "idle" THEN scall'[t].node ELSE scall[t].node
             IN /\ \A m \in Nodes \ SubtreeOf(n) :
                       /\ _shutdownStatus'[m] = _shutdownStatus[m]
                       /\ _activeOpContexts'[m] = _activeOpContexts[m]
                       /\ _activeHandles'[m] = _activeHandles[m]
                       /\ _childSchedulers'[m] = _childSchedulers[m]
                /\ \A x \in Contexts :
                       killed'[x] # killed[x] => x \in ActiveContextsUnder(n)
                /\ \A h \in Handles :
                       cancelRequested'[h] # cancelRequested[h] =>
                           h \in ActiveHandlesUnder(n)))

\* C35 witness: the first shutdown of a child of the root has returned; a
\* context of the child is killed, and the root, which has a handle that
\* is not cancelled, has no shutdown status.
C35_Witness ==
    \E t \in ShutdownThreads, c \in Nodes :
        /\ spc[t] = "returned" /\ scall[t].first /\ scall[t].node = c
        /\ _parent[c] = 1
        /\ _shutdownStatus[c] \in ShutdownReasons
        /\ \E y \in _activeOpContexts[c] : killed[y]
        /\ _shutdownStatus[1] = StatusOK
        /\ \E h \in _activeHandles[1] : ~cancelRequested[h]

\* The call of thread t is an insert for step-up.
StepUpInsert(t) == call[t].op = "insert" /\ call[t].forStepUp

\* C36: an insert called with forStepUp enters its critical section at once
\* whatever the step-up status is, never sleeps on the gate and never fails
\* with the step-up status; its store puts the coordinator in the map, also
\* when the status is unset or a failure; and get and getLatestOnSession
\* return a coordinator only when the step-up status is OK.
C36_StepUpInsertBypassesGate ==
    /\ [][\A t \in Clients :
            (pc[t] = "idle" /\ StepUpInsert(t)' /\ aborted' = None) =>
                pc'[t] = "i_indexed" /\ _mutex' = t]_vars
    /\ [](\A t \in Clients :
            StepUpInsert(t) =>
                pc[t] # "blocked" /\ result[t].status \in {None, StatusOK})
    /\ [][\A t \in Clients :
            (StepUpInsert(t) /\ pc[t] = "i_indexed" /\ pc'[t] = "i_unlocked") =>
                /\ _stepUpCompletionStatus' = _stepUpCompletionStatus
                /\ \E m \in {_coordinatorsBySession'} :
                       GetLookup(m, call[t].lsid, call[t].txnNumber)
                           = call[t].coordinator]_vars
    /\ [](\A t \in Clients :
            (/\ call[t].op \in {"get", "getLatestOnSession"}
             /\ pc[t] = "done"
             /\ result[t].coordinator # NullCoordinator) =>
                _stepUpCompletionStatus = StatusOK)

\* C36 witness: the step-up has failed; an insert for step-up that was
\* called after that is in its critical section, and a coordinator that was
\* inserted for step-up before is in the map.
C36_Witness ==
    \E t \in Clients :
        /\ StepUpInsert(t) /\ pc[t] = "i_indexed"
        /\ _stepUpCompletionStatus \in FailureStatuses
        /\ \E lsid \in LogicalSessionIds, txnNumber \in TxnNumbers :
               GetLookup(_coordinatorsBySession, lsid, txnNumber) # NullCoordinator

\* Thread t takes a step of onStepDown.
StepDownSteps(t) ==
    /\ aborted' = None
    /\ \/ pc[t] = "idle" /\ pc'[t] = "sd_snapshot"
       \/ /\ pc[t] \in {"sd_snapshot", "sd_cancel"}
          /\ (pc'[t] # pc[t] \/ coordinatorsToCancel'[t] # coordinatorsToCancel[t])

\* An onStepDown of thread t has taken its snapshot and released the mutex.
SnapshotTaken(t) ==
    call[t].op = "onStepDown" /\ pc[t] \in {"sd_cancel", "done"}

\* C37: no step of onStepDown changes the map or the step-up status; the
\* call invokes the cancel hook only of coordinators that were in the map
\* when it took its snapshot; and an insert that stores its coordinator
\* after the snapshot was taken puts it in the map, where the call neither
\* has it in its snapshot nor ever cancels it.
C37_StepDownIsASnapshot ==
    /\ ~ENABLED (CatalogWriterNext /\ ~(
          \A t \in Clients :
            StepDownSteps(t) =>
                /\ _coordinatorsBySession' = _coordinatorsBySession
                /\ _stepUpCompletionStatus' = _stepUpCompletionStatus))
    /\   (\A t \in Clients : \A c \in Coordinators :
            (call[t].op = "onStepDown" /\ sdCalls[t][c] > 0) => c \in sdExpected[t])
    /\ ~ENABLED (CatalogWriterNext /\ ~(
          \A t \in Clients, u \in Clients :
            (/\ SnapshotTaken(t)
             /\ pc[u] = "i_indexed" /\ pc'[u] = "i_unlocked") =>
                /\ \E m \in {_coordinatorsBySession'} :
                       GetLookup(m, call[u].lsid, call[u].txnNumber)
                           = call[u].coordinator
                /\ call[u].coordinator \notin sdExpected[t]
                /\ sdCalls'[t][call[u].coordinator] = 0))

\* C37 witness: onStepDown has returned after it cancelled the coordinator
\* of its snapshot; a coordinator that was inserted after the snapshot is in
\* the map, not cancelled and not completed.
C37_Witness ==
    \E t \in Clients, c1 \in Coordinators, c2 \in Coordinators :
        /\ call[t].op = "onStepDown" /\ pc[t] = "done"
        /\ c1 \in sdExpected[t] /\ sdCalls[t][c1] = 1
        /\ c2 \notin sdExpected[t] /\ sdCalls[t][c2] = 0
        /\ registeredAt[c2] # {}
        /\ \E k \in registeredAt[c2] :
               GetLookup(_coordinatorsBySession, k[1], k[2]) = c2
        /\ completion[c2] = "pending"

(***************************************************************************)
(* Properties of the executor.                                             *)
(***************************************************************************)
\* A scheduling call constructs callback state c and returns in this step.
ScheduleReturns(c) ==
    cbStates[c].queue = "unmade" /\ cbStates'[c].queue # "unmade"

\* makeEvent returns in this step.
MakeEventReturns(e) == eventStates[e] = "unmade" /\ eventStates'[e] # "unmade"

\* No queue and no event list gains a member in this step.
NothingEnqueued ==
    /\ \A q \in {"network", "sleepers", "waiters", "pool"} : InQueue(q)' \subseteq InQueue(q)
    /\ UnsignaledEvents' \subseteq UnsignaledEvents

\* The invariants of shutdown and _join.
ShutdownJoinInvariants ==
    {"shutdown: invariant(_networkInProgressQueue.empty())",
     "shutdown: invariant(_sleepersQueue.empty())",
     "_join: invariant(_state == joinRequired)",
     "_join: invariant(eventState->waiters.empty())",
     "_join: invariant(_poolInProgressQueue.empty())",
     "_join: invariant(_networkInProgressQueue.empty())",
     "_join: invariant(_sleepersQueue.empty())",
     "_join: invariant(_unsignaledEvents.empty())"}

\* C38 as stated: in shutdown every scheduling call, onEvent included,
\* returns ShutdownInProgress.
C38_Original ==
    [][\A c \in Callbacks :
         (_inShutdown_inlock /\ ScheduleReturns(c)) =>
             cbStates'[c].queue = "refused"]_vars

\* C38, amended: once the state is joinRequired or later, scheduleWork,
\* scheduleWorkAt, scheduleRemoteCommandOnAny, makeEvent and onEvent with a
\* valid event handle return ShutdownInProgress, onEvent with a handle that
\* is not valid returns BadValue, and none of them adds to a queue or to the
\* event list; the network and sleeper queues are empty from then on, and
\* no invariant of shutdown or _join fires.
C38_RejectsWorkAfterShutdown ==
    /\ ~ENABLED (ExecutorNext /\ ~(
          \A c \in Callbacks :
            (_inShutdown_inlock /\ ScheduleReturns(c)) =>
                /\ cbStates'[c].queue \in {"refused", "badValue"}
                /\ cbStates'[c].queue = "badValue" =>
                       cbStates'[c].kind = "event" /\ cbStates'[c].event = 0
                /\ NothingEnqueued))
    /\ ~ENABLED (ExecutorNext /\ ~(
          \A e \in Events :
            (_inShutdown_inlock /\ MakeEventReturns(e)) =>
                eventStates'[e] = "refused" /\ NothingEnqueued))
    /\   (_inShutdown_inlock =>
             InQueue("network") = {} /\ InQueue("sleepers") = {})
    /\   (execAborted \notin ShutdownJoinInvariants)

\* C38 witness: the executor is shut down; a callback that slept or waited
\* when shutdown was called has run as canceled, a later scheduling call
\* was refused and so was makeEvent.
C38_Witness ==
    /\ _inShutdown_inlock
    /\ \E c \in Callbacks, d \in Callbacks :
           /\ cbStates[c].queue = "refused"
           /\ cbStates[d].queue = "erased"
           /\ cbStates[d].kind \in {"timer", "network", "event"}
           /\ cbStates[d].status = CallbackCanceled
    /\ \E e \in Events : eventStates[e] = "refused"

\* runCallback reads the canceled flag of c and invokes the callback.
CallbackInvoked(c) ==
    cbStates[c].task # "running" /\ cbStates'[c].task = "running"

\* C39: a callback state is moved into the pool-in-progress queue at most
\* once, runCallback never meets a finished callback state, and a callback
\* whose canceled flag is set when runCallback reads it is invoked with
\* CallbackCanceled.
C39_RunsAtMostOnce ==
    /\   (\A c \in Callbacks : cbStates[c].moved <= 1)
    /\   (execAborted # "runCallback: invariant(!isFinished)")
    /\ ~ENABLED (ExecutorNext /\ ~(
          \A c \in Callbacks :
            (CallbackInvoked(c) /\ cbStates[c].canceled) =>
                cbStates'[c].status = CallbackCanceled))
    /\ ~ENABLED (ExecutorNext /\ ~(
          \A c \in Callbacks :
            cbStates[c].isFinished /\ execAborted' = None =>
                /\ cbStates'[c].task = "none"
                /\ cbStates'[c].status = cbStates[c].status))

\* C39 witness: a sleeper was canceled by cancel while the executor was
\* running, went into the pool queue once and was invoked with
\* CallbackCanceled.
C39_Witness ==
    /\ _state = "running"
    /\ \E c \in Callbacks :
           /\ cbStates[c].kind = "timer"
           /\ cbStates[c].canceled
           /\ cbStates[c].moved = 1
           /\ cbStates[c].isFinished
           /\ cbStates[c].status = CallbackCanceled

\* The forward steps of the executor state.
ForwardSteps ==
    {<<"preStart", "running">>, <<"preStart", "joinRequired">>,
     <<"running", "joinRequired">>, <<"joinRequired", "joining">>,
     <<"joining", "shutdownComplete">>}

\* C40: the executor state moves along preStart -> running -> joinRequired
\* -> joining -> shutdownComplete (or preStart -> joinRequired) and never
\* back; join goes past its wait only in joinRequired or shutdownComplete
\* with an empty pool-in-progress queue and returns only in
\* shutdownComplete; in shutdownComplete the pool, network and sleeper
\* queues and the list of unsignaled events are empty.
C40_JoinStateMachine ==
    /\ ~ENABLED (ExecutorNext /\ ~(
          execAborted' = None =>
            \/ _state' = _state
            \/ <<_state, _state'>> \in ForwardSteps))
    /\ ~ENABLED (ExecutorNext /\ ~(
          \A t \in ExecThreads :
            (epc[t] = "j_waiting" /\ epc'[t] # "j_waiting" /\ execAborted' = None) =>
                /\ StateRank(_state) >= StateRank("joinRequired")
                /\ InQueue("pool") = {}))
    /\   (\A t \in ExecThreads :
            epc[t] = "j_returned" => _state = "shutdownComplete")
    /\   (_state = "shutdownComplete" =>
            /\ InQueue("pool") = {}
            /\ InQueue("network") = {}
            /\ InQueue("sleepers") = {}
            /\ UnsignaledEvents = {})

\* C40 witness: join has returned on two threads, one that took the state
\* to shutdownComplete and one that found it there; callbacks that were
\* accepted have run and an event made before shutdown was signaled.
C40_Witness ==
    /\ _state = "shutdownComplete"
    /\ \A t \in ExecThreads : epc[t] = "j_returned"
    /\ \E c \in Callbacks : cbStates[c].queue = "erased"
    /\ \E e \in Events : eventStates[e] = "signaled"

====
